---- MODULE Spec2Model ----
(***************************************************************************)
(* A model of holy-diver: the member registry (swim/members.rs), the peer  *)
(* identity (swim/types.rs), the broadcast handler (swim/broadcast.rs),    *)
(* the document store (swim/core.rs) and the runtime actor (swim/foca.rs). *)
(*                                                                         *)
(* Specifications:                                                         *)
(*   SpecMembers  any sequence of add_member / remove_member calls         *)
(*   SpecID       renew() applied to identities                            *)
(*   SpecFraming  craft_broadcast, then receive_item on a fresh handler    *)
(*   SpecMerge    a store under a sequence of handle_message(FullSync, s)  *)
(*   Spec         two nodes: local writes, and deliveries of the           *)
(*                broadcasts to the nodes' handlers in any order           *)
(*   SpecStore    one store and its data directory: writes, reads,         *)
(*                merges and restarts on a file system that may fail       *)
(*   SpecBuffer   SendBroadcast commands filling the engine's buffer       *)
(*   SpecActor    the runtime actor of swim/foca.rs and the tasks around   *)
(*                it                                                       *)
(*   SpecHttp     one node: the requests of swim/server.rs and lib.rs, the *)
(*                controller of swim/core.rs, the command channel and the  *)
(*                actor behind it                                          *)
(***************************************************************************)
EXTENDS Integers, Sequences, FiniteSets, TLC

VARIABLES
    \* ---- Member Registry (swim/members.rs) ----
    members,      \* Members.0 : HashMap<SocketAddr, u8>, a function on a subset of Addrs
    mprev,        \* history: the registry before the last call
    mlast,        \* history: the last call, its argument and its return value
    adds,         \* history: per address, the number of add_member calls
    effRemoves,   \* history: per address, the number of remove_member calls that found an entry
    mchecks,      \* the build checks integer overflow (debug) or wraps (release)
    mpanicked,    \* an overflow check has panicked in a call on the registry
    \* ---- Peer Identity (swim/types.rs) ----
    idcur,        \* the identity renew() is called on next
    idprev,       \* history: the identity the last renew() was called on
    idres,        \* the Option<ID> the last renew() returned
    idsteps,      \* number of renew() calls so far
    \* ---- craft_broadcast followed by receive_item (swim/broadcast.rs) ----
    frTag,        \* the Tag given to craft_broadcast
    frMsg,        \* the GossipMessage given to craft_broadcast
    frCrafted,    \* the Broadcast craft_broadcast returned
    frOut,        \* the outcome of receive_item on the crafted bytes
    frPc,         \* "start", "crafted", "received"
    \* ---- HolyDiverDataHandler under a sequence of merges (swim/core.rs) ----
    mgStore,      \* the store: document and automerge.dat
    mgLog,        \* history: the payloads handle_message was called with
    mgAfter,      \* history: the store after each of these calls
    \* ---- the nodes: Handler and HolyDiverDataHandler of each ----
    store,        \* per node, the Document Store: document and automerge.dat
    seen_op_ids,  \* per node, Handler.seen_op_ids
    calls,        \* history: per node and operation id, the calls of message_handler
    panicked,     \* per node, whether the task that owns the handler has panicked
    wire,         \* the broadcast payloads the engines carry between the nodes
    written,      \* history: the writes PUT /state/{field} made, in order
    last,         \* history: the last step
    \* ---- one Document Store and its data directory (swim/core.rs) ----
    dsStore,      \* the store: document, mutex state and automerge.dat
    dsBefore,     \* history: the store before the last step
    dsLast,       \* history: the last step
    dsPrev,       \* history: the step before the last step
    dsClean,      \* history: no merge and no restart since the start on an empty directory
    dsWritten,    \* history: per field, the value of the last set_field that returned
    dsOps,        \* number of set_field, merge and restart steps so far
    \* ---- the engine's broadcast buffer (swim/foca.rs, swim/broadcast.rs) ----
    ivBacklog,    \* the items the engine holds, each with the tag it was crafted for
    ivNew,        \* history: the last item handed to the engine, and its tag
    ivJudged,     \* history: per item held before, its tag and whether the last item invalidated it
    ivSeen,       \* Handler.seen_op_ids
    ivStore,      \* the store behind the handler's message_handler
    ivPanicked,   \* the actor task has panicked
    ivAdds,       \* number of SendBroadcast commands and echoed operations so far
    ivOriginated, \* history: the operation ids whose SendBroadcast the actor has handled
    ivEcho,       \* history: the last step was the delivery of a peer's item; was it
                  \* originated here, was message_handler called for it, and was the
                  \* item returned a new one (an id not received, the snapshot as data)
    \* ---- the Runtime Actor and the tasks around it (swim/foca.rs) ----
    rtQueue,      \* the channel of FocaCommands (foca_command_sender / _receiver)
    rtInput,      \* the channel of Inputs (tx_foca / rx_foca)
    rtOut,        \* the channel to the socket-writer task (tx_send_data / rx_send_data)
    to_send,      \* AccumulatingRuntime.to_send
    to_schedule,  \* AccumulatingRuntime.to_schedule
    notifications,\* AccumulatingRuntime.notifications
    rtPc,         \* where the actor is: "recv" (awaiting a command), "send" (awaiting
                  \* the channel to the socket writer), "dead" (panicked)
    rtMembers,    \* the actor's Members
    rtTimers,     \* per timer event, the number of sleeping timer tasks
    rtSeen,       \* Handler.seen_op_ids of the engine's handler
    rtStore,      \* the store behind the handler's message_handler
    rtInflight,   \* history: the command whose step has begun and not ended
    rtLast,       \* history: the last command whose step ended, its side-effects,
                  \* and active_list_has_changed at its end
    rtHandled,    \* number of commands the actor has taken
    rtArrived,    \* number of datagrams and client requests so far
    rtOverlap,    \* history: a command was sent to the actor while it was draining
    \* ---- the front ends of one node (swim/server.rs, lib.rs, swim/core.rs) ----
    htStore,      \* the Document Store behind the controller
    htSeen,       \* Handler.seen_op_ids
    htCtlPoisoned,\* the mutex around the controller is poisoned
    htLock,       \* who holds the mutex around the store between two steps: "none" or "writer"
    htChan,       \* the channel of FocaCommands
    htClosed,     \* the receiver of the channel is dropped (the actor task is gone)
    htWriter,     \* HolyDiverController::set_field: idle, or suspended in send with its command
    htActor,      \* the actor: at recv, holding a command it has taken, or dead
    htResp,       \* history: the last request and its answer
    htNextOp,     \* number of the next operation id Uuid::new_v4() yields
    htReqs        \* number of requests and datagrams so far

memVars  == <<members, mprev, mlast, adds, effRemoves, mchecks, mpanicked>>
idVars   == <<idcur, idprev, idres, idsteps>>
frVars   == <<frTag, frMsg, frCrafted, frOut, frPc>>
mgVars   == <<mgStore, mgLog, mgAfter>>
nodeVars == <<store, seen_op_ids, calls, panicked, wire, written, last>>
dsVars   == <<dsStore, dsBefore, dsLast, dsPrev, dsClean, dsWritten, dsOps>>
ivVars   == <<ivBacklog, ivNew, ivJudged, ivSeen, ivStore, ivPanicked, ivAdds,
             ivOriginated, ivEcho>>
rtVars   == <<rtQueue, rtInput, rtOut, to_send, to_schedule, notifications, rtPc,
             rtMembers, rtTimers, rtSeen, rtStore, rtInflight, rtLast, rtHandled,
             rtArrived, rtOverlap>>
htVars   == <<htStore, htSeen, htCtlPoisoned, htLock, htChan, htClosed, htWriter, htActor,
             htResp, htNextOp, htReqs>>
vars     == <<memVars, idVars, frVars, mgVars, nodeVars, dsVars, ivVars, rtVars, htVars>>

-----------------------------------------------------------------------------
(* Bounds *)

\* number of distinct socket addresses
NumAddrs == 2
\* add_member calls per address in one run
MaxAdds == 3
\* renew() calls in one run
MaxRenew == 2
\* initial bumps are drawn from 0..BumpSpread and (65535-BumpSpread)..65535
BumpSpread == 12
\* operation ids given to craft_broadcast
NumTags == 3
\* handle_message calls in one run of SpecMerge
MaxMerges == 3
\* writes (PUT /state/{field}) in one run of Spec, over all nodes
MaxOps == 2
\* set_field, merge and restart steps in one run of SpecStore
MaxStoreOps == 2
\* versions of a node's configuration
MaxVersion == 2
\* SendBroadcast commands in one run of SpecBuffer
MaxBroadcasts == 3
\* commands the actor takes in one run of SpecActor
MaxCommands == 2
\* datagrams and client requests in one run of SpecActor
MaxInputs == 1
\* capacity of the channels in SpecActor (mpsc::channel(100) in the code)
ChannelCap == 1
\* number of distinct timer events
NumTimers == 1
MaxRequests == 4

-----------------------------------------------------------------------------
(* Peer Identity: swim/types.rs *)

\* u8 and u16 arithmetic
TwoPow8  == 256
TwoPow16 == 65536

Addrs == 1..NumAddrs

\* struct ID { addr, bump }
ID(a, b) == [addr |-> a, bump |-> b]

InitBumps == (0..BumpSpread) \cup ((TwoPow16 - 1 - BumpSpread)..(TwoPow16 - 1))

NoneID == [some |-> FALSE]
SomeID(i) == [some |-> TRUE, id |-> i]

\* a renew() that gives up at the top of the u16 range (checked_add)
renew_checked(id) ==
    IF id.bump + 1 >= TwoPow16 THEN NoneID
    ELSE SomeID(ID(id.addr, id.bump + 1))

\* ID::renew: Some(Self { addr: self.addr, bump: self.bump.wrapping_add(1) })
renew(id) == SomeID(ID(id.addr, (id.bump + 1) % TwoPow16))

\* Identity::has_same_prefix
has_same_prefix(x, y) == x.addr = y.addr

InitID ==
    /\ idcur \in {ID(a, b) : a \in Addrs, b \in InitBumps}
    /\ idprev = idcur
    /\ idres = [some |-> FALSE, called |-> FALSE]
    /\ idsteps = 0

\* One call of renew(); the engine then switches to the renewed identity.
Renew ==
    /\ idsteps < MaxRenew
    /\ idprev' = idcur
    /\ idres' = renew(idcur)
    /\ idcur' = IF renew(idcur).some THEN renew(idcur).id ELSE idcur
    /\ idsteps' = idsteps + 1

-----------------------------------------------------------------------------
(* Member Registry: swim/members.rs *)

\* the counter of an address, 0 when the map holds no entry for it
Counter(m, a) == IF a \in DOMAIN m THEN m[a] ELSE 0

\* m with the entry for a set to c
Insert(m, a, c) == [x \in (DOMAIN m) \cup {a} |-> IF x = a THEN c ELSE m[x]]

\* m without the entry for a
Delete(m, a) == [x \in (DOMAIN m) \ {a} |-> m[x]]

\* Members::new
EmptyMembers == [x \in {} |-> 0]

\* an add_member that reports a change on every call
add_member_always(m, member) ==
    [members |-> Insert(m, member.addr, (Counter(m, member.addr) + 1) % TwoPow8),
     ret |-> TRUE]

\* Members::add_member: entry(addr).or_insert(0); *counter += 1; counter == &1
add_member(m, member) ==
    LET counter == (Counter(m, member.addr) + 1) % TwoPow8
    IN  [members |-> Insert(m, member.addr, counter), ret |-> counter = 1]

\* a remove_member that keeps the entry when its counter reaches 0
remove_member_keep(m, member) ==
    IF member.addr \in DOMAIN m
    THEN LET counter == (m[member.addr] + TwoPow8 - 1) % TwoPow8
         IN  [members |-> Insert(m, member.addr, counter), ret |-> counter = 0]
    ELSE [members |-> m, ret |-> FALSE]

\* a remove_member that decrements through entry(addr).or_insert(0)
remove_member_entry(m, member) ==
    LET counter == (Counter(m, member.addr) + TwoPow8 - 1) % TwoPow8
    IN  IF counter = 0
        THEN [members |-> Delete(m, member.addr), ret |-> TRUE]
        ELSE [members |-> Insert(m, member.addr, counter), ret |-> FALSE]

\* Members::remove_member: get_mut(addr) -> *counter -= 1; counter == &0;
\* the entry is removed when effectively down
remove_member(m, member) ==
    IF member.addr \in DOMAIN m
    THEN LET counter == (m[member.addr] + TwoPow8 - 1) % TwoPow8
             effectively_down == counter = 0
         IN  [members |-> IF effectively_down
                          THEN Delete(m, member.addr)
                          ELSE Insert(m, member.addr, counter),
              ret |-> effectively_down]
    ELSE [members |-> m, ret |-> FALSE]

\* Members::_addrs
addrs(m) == DOMAIN m

\* the bumps the registry is called with
CallBumps == {0, TwoPow16 - 1}

InitMembers ==
    /\ members = EmptyMembers
    /\ mprev = EmptyMembers
    /\ mlast = [op |-> "new", id |-> ID(1, 0), ret |-> FALSE]
    /\ adds = [a \in Addrs |-> 0]
    /\ effRemoves = [a \in Addrs |-> 0]
    /\ mchecks = FALSE
    /\ mpanicked = FALSE

\* a number of add_member calls for one address that leaves its u8 counter
\* two below the greatest value
NearFull == TwoPow8 - 2

\* the registry at the start of a run: Members::new, or the registry after
\* NearFull add_member calls for identities of address 1 (rejoins with new
\* bumps, none of them removed); built with or without overflow checks
InitRegistry ==
    /\ \E n \in {0, NearFull} :
         /\ members = (IF n = 0 THEN EmptyMembers ELSE Insert(EmptyMembers, 1, n))
         /\ adds = [a \in Addrs |-> IF a = 1 THEN n ELSE 0]
    /\ mprev = EmptyMembers
    /\ mlast = [op |-> "new", id |-> ID(1, 0), ret |-> FALSE]
    /\ effRemoves = [a \in Addrs |-> 0]
    /\ mchecks \in BOOLEAN
    /\ mpanicked = FALSE

\* a call of add_member(id); `*counter += 1` on a counter of 255 panics in a
\* build with overflow checks and wraps to 0 in one without
AddMember(id) ==
    /\ ~mpanicked
    /\ \/ adds[id.addr] < MaxAdds
       \/ adds[id.addr] >= NearFull /\ adds[id.addr] < NearFull + MaxAdds
    /\ adds' = [adds EXCEPT ![id.addr] = @ + 1]
    /\ mprev' = members
    /\ IF mchecks /\ Counter(members, id.addr) = TwoPow8 - 1
       THEN /\ mpanicked' = TRUE
            /\ mlast' = [op |-> "panic", id |-> id, ret |-> FALSE]
            /\ UNCHANGED members
       ELSE /\ members' = add_member(members, id).members
            /\ mlast' = [op |-> "add", id |-> id, ret |-> add_member(members, id).ret]
            /\ UNCHANGED mpanicked
    /\ UNCHANGED <<effRemoves, mchecks>>

\* a call of remove_member(id); `*counter -= 1` on a counter of 0 panics in
\* a build with overflow checks and wraps to 255 in one without
RemoveMember(id) ==
    /\ ~mpanicked
    /\ effRemoves[id.addr] < MaxAdds
    /\ mprev' = members
    /\ effRemoves' = [effRemoves EXCEPT
                        ![id.addr] = IF id.addr \in DOMAIN members THEN @ + 1 ELSE @]
    /\ IF mchecks /\ id.addr \in DOMAIN members /\ members[id.addr] = 0
       THEN /\ mpanicked' = TRUE
            /\ mlast' = [op |-> "panic", id |-> id, ret |-> FALSE]
            /\ UNCHANGED members
       ELSE /\ members' = remove_member(members, id).members
            /\ mlast' = [op |-> "remove", id |-> id, ret |-> remove_member(members, id).ret]
            /\ UNCHANGED mpanicked
    /\ UNCHANGED <<adds, mchecks>>

-----------------------------------------------------------------------------
(* Canonical binary encoding: bincode::DefaultOptions (little endian,      *)
(* variable-width integers), as used by swim/broadcast.rs                  *)

\* a Uuid is 16 bytes
UuidLen == 16
\* first byte value that bincode's varint encoding uses as a width marker
VarintMarker == 251

\* the Uuid minted for the i-th operation (Uuid::new_v4: version and variant bits set)
UuidOf(i) == [j \in 1..UuidLen |-> IF j = 7 THEN 64 + i ELSE IF j = 9 THEN 128 + i ELSE i]

\* a sequence of n zero bytes
Zeros(n) == [j \in 1..n |-> 0]

\* varint encoding of an unsigned integer (lengths and enum variant indexes)
EncVarint(n) ==
    IF n < VarintMarker THEN <<n>>
    ELSE IF n < TwoPow16 THEN <<VarintMarker, n % TwoPow8, n \div TwoPow8>>
    ELSE <<VarintMarker + 1, n % TwoPow8, (n \div TwoPow8) % TwoPow8,
           (n \div TwoPow16) % TwoPow8, (n \div (TwoPow16 * TwoPow8)) % TwoPow8>>

\* serialize_bytes / a Vec<u8>: the length as a varint, then the bytes
EncBytes(bs) == EncVarint(Len(bs)) \o bs

DecErr == [ok |-> FALSE]
DecOk(v, next) == [ok |-> TRUE, val |-> v, next |-> next]

\* reads a varint at position p of bs
DecVarint(bs, p) ==
    IF p > Len(bs) THEN DecErr
    ELSE IF bs[p] < VarintMarker THEN DecOk(bs[p], p + 1)
    ELSE IF bs[p] = VarintMarker
         THEN IF p + 2 > Len(bs) THEN DecErr
              ELSE DecOk(bs[p + 1] + TwoPow8 * bs[p + 2], p + 3)
    ELSE IF bs[p] = VarintMarker + 1
         THEN IF p + 4 > Len(bs) THEN DecErr
              ELSE DecOk(bs[p + 1] + TwoPow8 * bs[p + 2] + TwoPow16 * bs[p + 3]
                         + TwoPow16 * TwoPow8 * bs[p + 4], p + 5)
    \* 253 (u64) and 254 (u128) need 8 or 16 more bytes and give a length no
    \* input of the model holds; 255 is no marker
    ELSE DecErr

\* reads a length-prefixed byte sequence at position p of bs
DecBytes(bs, p) ==
    LET n == DecVarint(bs, p)
    IN  IF ~n.ok THEN DecErr
        ELSE IF n.next + n.val - 1 > Len(bs) THEN DecErr
        ELSE DecOk(SubSeq(bs, n.next, n.next + n.val - 1), n.next + n.val)

\* enum MessageType { FullSync, IncSync }: the variant index
MessageTypeIndex(t) == IF t = "FullSync" THEN 0 ELSE 1

\* GossipMessage::new
GossipMessage(message_type, message_payload) ==
    [message_type |-> message_type, message_payload |-> message_payload]

\* #[derive(Serialize)] struct GossipMessage { message_type, message_payload }
EncGossipMessage(m) ==
    EncVarint(MessageTypeIndex(m.message_type)) \o EncBytes(m.message_payload)

\* Tag::Operation { operation_id }
TagOperation(id) == [kind |-> "Operation", operation_id |-> id]

\* Tag::NodeConfig { node, version }
TagNodeConfig(node, version) == [kind |-> "NodeConfig", node |-> node, version |-> version]

\* the port of the socket address 127.0.0.1:<port> of address a
PortOf(a) == 8999 + a

\* Serialize for SocketAddr: the variant index of V4, the four octets of the
\* Ipv4Addr, the port as a varint
EncSocketAddr(a) == EncVarint(0) \o <<127, 0, 0, 1>> \o EncVarint(PortOf(a))

\* Serialize for SystemTime: secs_since_epoch and nanos_since_epoch as
\* varints; version v stands for v seconds after the epoch
EncSystemTime(v) == EncVarint(v) \o EncVarint(0)

\* #[derive(Serialize)] enum Tag: the variant index, then the fields;
\* a Uuid serializes as a byte sequence
EncTag(tag) ==
    IF tag.kind = "Operation" THEN EncVarint(0) \o EncBytes(tag.operation_id)
    ELSE EncVarint(1) \o EncSocketAddr(tag.node) \o EncSystemTime(tag.version)

\* struct RawBroadcast { id: Uuid, data: Vec<u8> }
RawBroadcast(id, data) == [id |-> id, data |-> data]

\* impl AsRef<[u8]> for RawBroadcast / for Broadcast: self.data
AsRefBytes(b) == b.data

\* impl Invalidates for Broadcast: a NodeConfig invalidates a NodeConfig of
\* the same node with a lower version; nothing else is invalidated
invalidates_Broadcast(self, other) ==
    IF self.tag.kind = "NodeConfig" /\ other.tag.kind = "NodeConfig"
          /\ self.tag.node = other.tag.node
    THEN self.tag.version > other.tag.version
    ELSE FALSE

\* impl Invalidates for RawBroadcast
invalidates_RawBroadcast(self, other) == FALSE

\* impl BroadcastHandler for Handler { type Broadcast = RawBroadcast }: the
\* engine asks the handler's item type whether an item invalidates another
invalidates(self, other) == invalidates_RawBroadcast(self, other)

\* #[derive(Deserialize)] struct RawBroadcast: the Uuid (a byte sequence of
\* length 16, anything else is an error), then the Vec<u8>
DecRawBroadcast(bs) ==
    LET id == DecBytes(bs, 1)
    IN  IF ~id.ok THEN DecErr
        ELSE IF Len(id.val) # UuidLen THEN DecErr
        ELSE LET d == DecBytes(bs, id.next)
             IN  IF ~d.ok THEN DecErr
                 ELSE DecOk(RawBroadcast(id.val, d.val), d.next)

\* Handler::craft_broadcast3: the serialized RawBroadcast
craft_broadcast3(broadcast) == EncBytes(broadcast.id) \o EncBytes(broadcast.data)

\* Handler::craft_broadcast: final_len = content.len() as u16, put_u16 (big
\* endian), then the serialized tag and the serialized item
craft_broadcast(tag, item) ==
    LET content == EncTag(tag) \o EncGossipMessage(item)
        final_len == Len(content) % TwoPow16
    IN  [tag |-> tag,
         data |-> <<final_len \div TwoPow8, final_len % TwoPow8>> \o content]

-----------------------------------------------------------------------------
(* The CRDT document (automerge::AutoCommit) as swim/core.rs uses it.      *)
(*                                                                         *)
(* A document is its set of operations. An operation id is <<counter,      *)
(* actor>>; ids are ordered by counter, then by actor. `makes` holds the   *)
(* actors whose put_object(ROOT, "values", Map) the document contains      *)
(* (each is operation <<1, actor>>); `puts` holds the put operations on    *)
(* the `values` maps: the map object is named by the actor that made it.   *)

\* the field names and values the HTTP surface is called with
FieldNames == <<"name", "color">>
ValNames == <<"dio", "bob">>

FieldCode(f) == CHOOSE i \in 1..Len(FieldNames) : FieldNames[i] = f
ValCode(v) == CHOOSE i \in 1..Len(ValNames) : ValNames[i] = v

\* Display of automerge::Value for a string scalar: the string in quotes
value_to_string(v) == "\"" \o v \o "\""

LamportLess(x, y) == x[1] < y[1] \/ (x[1] = y[1] /\ x[2] < y[2])

\* the greatest id of a non-empty set of ids
MaxId(S) == CHOOSE x \in S : \A y \in S : y = x \/ LamportLess(y, x)

\* ids in ascending order
RECURSIVE SortIds(_)
SortIds(S) ==
    IF S = {} THEN <<>>
    ELSE LET m == CHOOSE x \in S : \A y \in S : y = x \/ LamportLess(x, y)
         IN  <<m>> \o SortIds(S \ {m})

RECURSIVE SortNat(_)
SortNat(S) ==
    IF S = {} THEN <<>>
    ELSE LET m == CHOOSE x \in S : \A y \in S : x <= y
         IN  <<m>> \o SortNat(S \ {m})

\* get_initial_state: a new document with the actor derived from the
\* identity, and put_object(ROOT, "values", ObjType::Map)
get_initial_state(actor) == [actor |-> actor, makes |-> {actor}, puts |-> {}]

\* the greatest operation counter of the document
MaxCtr(d) ==
    LET ctrs == {p.id[1] : p \in d.puts} \cup (IF d.makes = {} THEN {0} ELSE {1})
    IN  CHOOSE c \in ctrs : \A x \in ctrs : x <= c

\* state.get(ROOT, "values"): of the conflicting map objects at ROOT.values
\* the one with the greatest operation id wins; all have counter 1
ValuesObj(d) == CHOOSE a \in d.makes : \A b \in d.makes : b <= a

\* the put operations on key k of map obj that no operation of d overwrote
Visible(d, obj, k) ==
    {p \in d.puts : p.obj = obj /\ p.key = k
                    /\ ~\E q \in d.puts : p.id \in q.pred}

\* ---- the snapshot format (AutoCommit::save / AutoCommit::load) ----

\* the magic bytes a saved document starts with
Magic == <<133, 111, 74, 131>>

EncIds(ids) ==
    LET s == SortIds(ids)
        F[i \in 0..Len(s)] == IF i = 0 THEN <<>> ELSE F[i - 1] \o <<s[i][1], s[i][2]>>
    IN  F[Len(s)]

EncPut(p) ==
    <<p.id[1], p.id[2], p.obj, p.key, p.val, Cardinality(p.pred)>> \o EncIds(p.pred)

\* AutoCommit::save: the operations in a canonical order
Save(d) ==
    LET ids == SortIds({p.id : p \in d.puts})
        put(i) == CHOOSE p \in d.puts : p.id = ids[i]
        F[i \in 0..Len(ids)] == IF i = 0 THEN <<>> ELSE F[i - 1] \o EncPut(put(i))
    IN  Magic \o <<Cardinality(d.makes)>> \o SortNat(d.makes)
              \o <<Cardinality(d.puts)>> \o F[Len(ids)]

LoadErr == [ok |-> FALSE]

\* parses n put operations at position p of bs
RECURSIVE ParsePuts(_, _, _)
ParsePuts(bs, p, n) ==
    IF n = 0 THEN [ok |-> TRUE, puts |-> {}, next |-> p]
    ELSE IF p + 5 > Len(bs) THEN LoadErr
    ELSE LET np == bs[p + 5]
         IN  IF p + 5 + 2 * np > Len(bs) THEN LoadErr
             ELSE LET put == [id |-> <<bs[p], bs[p + 1]>>, obj |-> bs[p + 2],
                              key |-> bs[p + 3], val |-> bs[p + 4],
                              pred |-> {<<bs[p + 4 + 2 * j], bs[p + 5 + 2 * j]>> : j \in 1..np}]
                      rest == ParsePuts(bs, p + 6 + 2 * np, n - 1)
                  IN  IF ~rest.ok THEN LoadErr
                      ELSE [ok |-> TRUE, puts |-> {put} \cup rest.puts, next |-> rest.next]

\* AutoCommit::load: no bytes give Ok(an empty document); else Err unless
\* the bytes are exactly one saved document
Load(bs) ==
    IF bs = <<>> THEN [ok |-> TRUE, doc |-> [makes |-> {}, puts |-> {}]]
    ELSE IF Len(bs) < Len(Magic) + 2 THEN LoadErr
    ELSE IF SubSeq(bs, 1, Len(Magic)) # Magic THEN LoadErr
    ELSE LET nm == bs[Len(Magic) + 1]
         IN  IF Len(bs) < Len(Magic) + nm + 2 THEN LoadErr
             ELSE LET r == ParsePuts(bs, Len(Magic) + nm + 3, bs[Len(Magic) + nm + 2])
                  IN  IF ~r.ok THEN LoadErr
                      ELSE IF r.next # Len(bs) + 1 THEN LoadErr
                      ELSE [ok |-> TRUE,
                            doc |-> [makes |-> {bs[Len(Magic) + i] : i \in 2..(nm + 1)},
                                     puts |-> r.puts]]

\* ---- the Document Store: HolyDiverDataHandler ----

\* <data_dir>/automerge.dat: whether it exists, and its bytes
File(bs) == [exists |-> TRUE, bytes |-> bs]

\* a missing automerge.dat
NoFile == [exists |-> FALSE, bytes |-> <<>>]

\* the store: the document behind the mutex `data`, whether that mutex is
\* poisoned (a thread panicked while it held the guard), and automerge.dat
Store(d, f) == [doc |-> d, file |-> f, poisoned |-> FALSE]

\* a panic while the guard of `data` is held: the mutex is poisoned, and
\* every later data.lock().unwrap() panics
Poison(st) == [st EXCEPT !.poisoned = TRUE]

\* what the file system does on store_data: all goes well; open() fails;
\* open() truncates the file and write_all fails before the first byte, or
\* after a part of the bytes
DiskOutcomes == {"ok", "open_err", "write_none", "write_short"}

\* what the file system does on read_state_from_disk: all goes well;
\* File::open fails; read_to_end fails before the first byte, or after a
\* part of the bytes
ReadOutcomes == {"ok", "open_err", "read_none", "read_short"}

\* the outcomes of store_data in the runs that are not about the disk: the
\* file system works
WorkingDisk == {"ok"}

\* the first half of a byte sequence
FirstHalf(bs) == SubSeq(bs, 1, Len(bs) \div 2)

\* HolyDiverDataHandler::store_data: open with write, truncate and create
\* (unwrap: a failure panics, in the caller's critical section), then
\* write_all(save()), whose failure is logged
store_data(st, io) ==
    IF io = "open_err" THEN Poison(st)
    ELSE IF io = "write_none" THEN [st EXCEPT !.file = File(<<>>)]
    ELSE IF io = "write_short" THEN [st EXCEPT !.file = File(FirstHalf(Save(st.doc)))]
    ELSE [st EXCEPT !.file = File(Save(st.doc))]

\* a read_state_from_disk that never reads the file
read_state_from_disk_fresh(file, actor, io, loaded_actor) == get_initial_state(actor)

\* read_state_from_disk: no file -> get_initial_state; File::open fails ->
\* get_initial_state; else the buffer read_to_end filled (its own error is
\* dropped by the outer Ok(_)) is loaded: Ok -> the loaded document, which
\* has the actor id AutoCommit::load made up; Err -> get_initial_state
read_state_from_disk(file, actor, io, loaded_actor) ==
    IF ~file.exists THEN get_initial_state(actor)
    ELSE IF io = "open_err" THEN get_initial_state(actor)
    ELSE LET read_buffer == IF io = "read_none" THEN <<>>
                            ELSE IF io = "read_short" THEN FirstHalf(file.bytes)
                            ELSE file.bytes
         IN  IF Load(read_buffer).ok
             THEN [actor |-> loaded_actor, makes |-> Load(read_buffer).doc.makes,
                   puts |-> Load(read_buffer).doc.puts]
             ELSE get_initial_state(actor)

\* HolyDiverDataHandler::new: the document read_state_from_disk returns, in
\* a new mutex
new(file, actor, io, loaded_actor) ==
    Store(read_state_from_disk(file, actor, io, loaded_actor), file)

\* HolyDiverDataHandler::new on an empty data directory: read_state_from_disk
\* takes the else branch (no file) and returns get_initial_state(identity)
NewStore(actor) == new(NoFile, actor, "ok", actor)

\* DataHandler::get_state: data.lock().unwrap().save()
get_state(st) == Save(st.doc)

\* AutoCommit::merge fails when the two documents hold different operations
\* under one operation id
MergeFails(d, other) ==
    \E p \in d.puts : \E q \in other.puts : p.id = q.id /\ p # q

\* a merge that replaces the local document by the remote one
merge_replace(st, other, io) ==
    IF st.poisoned THEN st
    ELSE store_data([st EXCEPT !.doc = [actor |-> st.doc.actor, makes |-> other.makes,
                                        puts |-> other.puts]], io)

\* HolyDiverDataHandler::merge: data.lock().unwrap(); data.merge(&mut other);
\* Ok -> store_data, Err -> logged
merge(st, other, io) ==
    IF st.poisoned THEN st
    ELSE IF MergeFails(st.doc, other) THEN st
    ELSE store_data([st EXCEPT !.doc = [actor |-> st.doc.actor,
                                        makes |-> st.doc.makes \cup other.makes,
                                        puts |-> st.doc.puts \cup other.puts]], io)

\* a handle_message that persists also when the payload does not parse
handle_message_rewrite(st, msg_type, msg_payload, io) ==
    IF msg_type = "FullSync"
    THEN IF Load(msg_payload).ok THEN merge(st, Load(msg_payload).doc, io)
         ELSE store_data(st, io)
    ELSE st

\* DataHandler::handle_message: FullSync -> load the payload and merge it
\* (a payload that does not parse is logged); any other type is logged
handle_message(st, msg_type, msg_payload, io) ==
    IF msg_type = "FullSync"
    THEN IF Load(msg_payload).ok THEN merge(st, Load(msg_payload).doc, io) ELSE st
    ELSE st

\* HolyDiverDataHandler::get_field: the winner of values[field_name], as a
\* string; panics when the mutex is poisoned and when ROOT holds no map
\* named values
get_field(st, field_name) ==
    IF st.poisoned \/ st.doc.makes = {} THEN [panic |-> TRUE, some |-> FALSE]
    ELSE LET vis == Visible(st.doc, ValuesObj(st.doc), FieldCode(field_name))
         IN  IF vis = {} THEN [panic |-> FALSE, some |-> FALSE]
             ELSE LET w == CHOOSE p \in vis : p.id = MaxId({q.id : q \in vis})
                  IN  [panic |-> FALSE, some |-> TRUE, val |-> value_to_string(ValNames[w.val])]

\* state.put(&values, field_name, field_value): a new operation that
\* overwrites the visible ones; putting the value a single visible operation
\* already holds adds no operation
Put(d, k, v) ==
    LET vis == Visible(d, ValuesObj(d), k)
    IN  IF Cardinality(vis) = 1 /\ \A p \in vis : p.val = v THEN d
        ELSE [d EXCEPT !.puts = @ \cup {[id |-> <<MaxCtr(d) + 1, d.actor>>,
                                          obj |-> ValuesObj(d), key |-> k, val |-> v,
                                          pred |-> {p.id : p \in vis}]}]

\* a set_field that persists the document without the new value
set_field_noput(st, field_name, field_value, io) ==
    IF st.poisoned \/ st.doc.makes = {} THEN Poison(st)
    ELSE store_data(st, io)

\* a set_field that does not persist
set_field_nostore(st, field_name, field_value, io) ==
    IF st.poisoned \/ st.doc.makes = {} THEN Poison(st)
    ELSE [st EXCEPT !.doc = Put(st.doc, FieldCode(field_name), ValCode(field_value))]

\* HolyDiverDataHandler::set_field: data.lock().unwrap(); panic when ROOT
\* holds no map named values; put, then store_data
set_field(st, field_name, field_value, io) ==
    IF st.poisoned \/ st.doc.makes = {} THEN Poison(st)
    ELSE store_data([st EXCEPT !.doc = Put(st.doc, FieldCode(field_name),
                                           ValCode(field_value))], io)

\* ---- the Broadcast Handler: impl BroadcastHandler for Handler ----

\* the outcome of receive_item: a panic (the unwrap of a failed
\* deserialization), Ok(None) or Ok(Some(broadcast)); with the handler's
\* seen_op_ids and the store afterwards, and whether message_handler ran
Received(panic, seen, st, ret, called) ==
    [panic |-> panic, seen |-> seen, store |-> st, ret |-> ret, called |-> called]

NoneItem == [some |-> FALSE]
SomeItem(b) == [some |-> TRUE, item |-> b]

\* a receive_item that does not look at seen_op_ids
receive_item_nocheck(seen, st, data, io) ==
    LET b == DecRawBroadcast(data)
    IN  IF ~b.ok THEN Received(TRUE, seen, st, NoneItem, FALSE)
        ELSE LET after == handle_message(st, "FullSync", b.val.data, io)
             IN  IF after.poisoned /\ Load(b.val.data).ok
                 THEN Received(TRUE, seen \cup {b.val.id}, after, NoneItem, TRUE)
                 ELSE Received(FALSE, seen \cup {b.val.id}, after, SomeItem(b.val), TRUE)

\* a receive_item that hands an already seen broadcast back for re-broadcast
receive_item_resend(seen, st, data, io) ==
    LET b == DecRawBroadcast(data)
    IN  IF ~b.ok THEN Received(TRUE, seen, st, NoneItem, FALSE)
        ELSE IF b.val.id \in seen THEN Received(FALSE, seen, st, SomeItem(b.val), FALSE)
        ELSE LET after == handle_message(st, "FullSync", b.val.data, io)
             IN  IF after.poisoned /\ Load(b.val.data).ok
                 THEN Received(TRUE, seen \cup {b.val.id}, after, NoneItem, TRUE)
                 ELSE Received(FALSE, seen \cup {b.val.id}, after, SomeItem(b.val), TRUE)

\* a receive_item that records and hands back only the broadcasts whose
\* payload the store could parse
receive_item_parsed(seen, st, data, io) ==
    LET b == DecRawBroadcast(data)
    IN  IF ~b.ok THEN Received(TRUE, seen, st, NoneItem, FALSE)
        ELSE IF b.val.id \in seen THEN Received(FALSE, seen, st, NoneItem, FALSE)
        ELSE IF ~Load(b.val.data).ok THEN Received(FALSE, seen, st, NoneItem, TRUE)
        ELSE LET after == handle_message(st, "FullSync", b.val.data, io)
             IN  IF after.poisoned /\ Load(b.val.data).ok
                 THEN Received(TRUE, seen \cup {b.val.id}, after, NoneItem, TRUE)
                 ELSE Received(FALSE, seen \cup {b.val.id}, after, SomeItem(b.val), TRUE)

\* Handler::receive_item: deserialize a RawBroadcast (unwrap); Ok(None) when
\* its id is in seen_op_ids; else insert the id, call message_handler with
\* (FullSync, data) and return Ok(Some(broadcast)). message_handler panics
\* when its merge finds the mutex poisoned or store_data cannot open the file
receive_item(seen, st, data, io) ==
    LET b == DecRawBroadcast(data)
    IN  IF ~b.ok THEN Received(TRUE, seen, st, NoneItem, FALSE)
        ELSE IF b.val.id \in seen THEN Received(FALSE, seen, st, NoneItem, FALSE)
        ELSE LET after == handle_message(st, "FullSync", b.val.data, io)
             IN  IF after.poisoned /\ Load(b.val.data).ok
                 THEN Received(TRUE, seen \cup {b.val.id}, after, NoneItem, TRUE)
                 ELSE Received(FALSE, seen \cup {b.val.id}, after, SomeItem(b.val), TRUE)

-----------------------------------------------------------------------------
(* craft_broadcast followed by receive_item *)

\* the payloads of the messages given to craft_broadcast: byte sequences of
\* several lengths, and saved documents
FramingPayloads ==
    {Zeros(n) : n \in {0, 1, 250, 251, 4080}}
        \cup {Save(get_initial_state(2)), Save(Put(get_initial_state(2), 1, 1))}

InitFraming ==
    /\ frTag \in {TagOperation(UuidOf(i)) : i \in 1..NumTags}
    /\ frMsg \in {GossipMessage(t, p) : t \in {"FullSync", "IncSync"}, p \in FramingPayloads}
    /\ frCrafted = [tag |-> frTag, data |-> <<>>]
    /\ frOut = Received(FALSE, {}, NewStore(1), NoneItem, FALSE)
    /\ frPc = "start"

IdleFraming ==
    /\ frTag = TagOperation(UuidOf(1))
    /\ frMsg = GossipMessage("FullSync", <<>>)
    /\ frCrafted = [tag |-> frTag, data |-> <<>>]
    /\ frOut = Received(FALSE, {}, NewStore(1), NoneItem, FALSE)
    /\ frPc = "start"

\* broadcast_handler.craft_broadcast(tag, msg)
Craft ==
    /\ frPc = "start"
    /\ frCrafted' = craft_broadcast(frTag, frMsg)
    /\ frPc' = "crafted"
    /\ UNCHANGED <<frTag, frMsg, frOut>>

\* the crafted bytes (broadcast.as_ref()) are handed to a handler that has
\* seen nothing: Handler::new(HashSet::new(), ..)
Receive(io) ==
    /\ frPc = "crafted"
    /\ frOut' = receive_item({}, NewStore(1), AsRefBytes(frCrafted), io)
    /\ frPc' = "received"
    /\ UNCHANGED <<frTag, frMsg, frCrafted>>

-----------------------------------------------------------------------------
(* A store under a sequence of merges *)

\* documents of two nodes that started from empty data directories
DocA0 == get_initial_state(1)
DocB0 == get_initial_state(2)
DocA1 == Put(DocA0, FieldCode("name"), ValCode("dio"))
DocA2 == Put(DocA1, FieldCode("color"), ValCode("bob"))
DocB1 == Put(DocB0, FieldCode("name"), ValCode("bob"))
DocB2 == Put(merge(Store(DocB1, NoFile), DocA1, "ok").doc, FieldCode("name"), ValCode("dio"))

\* the payloads handle_message is called with: saved documents, no bytes
\* (which load as an empty document), and bytes that are no document
MergePayloads ==
    {Save(d) : d \in {DocA0, DocA1, DocA2, DocB0, DocB1, DocB2}} \cup {<<>>, Zeros(3)}

InitMerge ==
    /\ mgStore \in {NewStore(1), store_data(Store(DocA1, NoFile), "ok"),
                    store_data(Store(DocA2, NoFile), "ok")}
    /\ mgLog = <<>>
    /\ mgAfter = <<>>

IdleMerge ==
    /\ mgStore = NewStore(1)
    /\ mgLog = <<>>
    /\ mgAfter = <<>>

\* data_handler.handle_message(FullSync, s)
MergeStep(s, io) ==
    /\ Len(mgLog) < MaxMerges
    /\ mgStore' = handle_message(mgStore, "FullSync", s, io)
    /\ mgLog' = Append(mgLog, s)
    /\ mgAfter' = Append(mgAfter, handle_message(mgStore, "FullSync", s, io))

-----------------------------------------------------------------------------
(* One Document Store and its data directory: local writes, reads, merges  *)
(* of remote snapshots, and restarts of the process, on a file system that *)
(* may fail                                                                *)

\* the actor id derived from the identity of the store's node; the actor
\* ids AutoCommit::load makes up are random bytes, below or above it
StoreActor == 3
LoadedActors == {2, 4}

\* snapshots of two remote nodes, with actor ids below and above StoreActor
DocC1 == Put(get_initial_state(5), FieldCode("name"), ValCode("bob"))

\* the payloads of the FullSync messages: two snapshots, no bytes, a snapshot
\* cut short and bytes that are no snapshot
StorePayloads == {Save(DocA1), Save(DocC1), <<>>, FirstHalf(Save(DocA1)), Zeros(3)}

\* a step of the run: the operation, its arguments and what the disk did
StoreStep(op, field, val, payload, io) ==
    [op |-> op, field |-> field, val |-> val, payload |-> payload, io |-> io]

NoStep == StoreStep("start", "name", "dio", <<>>, "ok")

\* no field has been written
NothingWritten == [f \in {FieldNames[i] : i \in 1..Len(FieldNames)} |-> "none"]

\* the process starts with an empty data directory
InitStore ==
    /\ dsStore = NewStore(StoreActor)
    /\ dsBefore = NewStore(StoreActor)
    /\ dsLast = NoStep
    /\ dsPrev = NoStep
    /\ dsClean = TRUE
    /\ dsWritten = NothingWritten
    /\ dsOps = 0

\* HolyDiverDataHandler::set_field(f, v)
StoreSetField(f, v, io) ==
    /\ dsOps < MaxStoreOps
    /\ dsStore' = set_field(dsStore, f, v, io)
    /\ dsBefore' = dsStore
    /\ dsLast' = StoreStep("set", f, v, <<>>, io)
    /\ dsPrev' = dsLast
    /\ dsWritten' = IF set_field(dsStore, f, v, io).poisoned THEN dsWritten
                    ELSE [dsWritten EXCEPT ![f] = v]
    /\ dsOps' = dsOps + 1
    /\ UNCHANGED dsClean

\* HolyDiverDataHandler::get_field(f); its panic poisons the mutex
StoreGetField(f) ==
    /\ dsLast.op # "get"
    /\ dsStore' = IF get_field(dsStore, f).panic THEN Poison(dsStore) ELSE dsStore
    /\ dsBefore' = dsStore
    /\ dsLast' = StoreStep("get", f, "dio", <<>>, "ok")
    /\ dsPrev' = dsLast
    /\ UNCHANGED <<dsClean, dsWritten, dsOps>>

\* handle_message(FullSync, payload)
StoreMerge(payload, io) ==
    /\ dsOps < MaxStoreOps
    /\ dsStore' = handle_message(dsStore, "FullSync", payload, io)
    /\ dsBefore' = dsStore
    /\ dsLast' = StoreStep("merge", "name", "dio", payload, io)
    /\ dsPrev' = dsLast
    /\ dsClean' = (dsClean /\ ~Load(payload).ok)
    /\ dsOps' = dsOps + 1
    /\ UNCHANGED dsWritten

\* the process terminates and starts again with the same data directory:
\* HolyDiverDataHandler::new(data_dir, identity)
StoreRestart(io, loaded_actor) ==
    /\ dsOps < MaxStoreOps
    /\ dsStore' = new(dsStore.file, StoreActor, io, loaded_actor)
    /\ dsBefore' = dsStore
    /\ dsLast' = StoreStep("restart", "name", "dio", <<>>, io)
    /\ dsPrev' = dsLast
    /\ dsClean' = FALSE
    /\ dsWritten' = NothingWritten
    /\ dsOps' = dsOps + 1

\* the process stops inside the store_data of set_field(f, v), after open
\* has truncated the file and before write_all has finished (io tells how
\* far it got), and starts again with the same data directory
StoreCrash(f, v, io, loaded_actor) ==
    /\ dsOps < MaxStoreOps
    /\ ~set_field(dsStore, f, v, io).poisoned
    /\ dsStore' = new(set_field(dsStore, f, v, io).file, StoreActor, "ok", loaded_actor)
    /\ dsBefore' = dsStore
    /\ dsLast' = StoreStep("crash", f, v, <<>>, io)
    /\ dsPrev' = dsLast
    /\ dsClean' = FALSE
    /\ dsWritten' = NothingWritten
    /\ dsOps' = dsOps + 1

-----------------------------------------------------------------------------
(* The engine's broadcast buffer: FocaCommand::SendBroadcast crafts a      *)
(* broadcast and gives its bytes to the engine, which asks the handler for *)
(* the item (receive_item) and drops the buffered items the new item       *)
(* invalidates                                                             *)

\* the tags of the broadcasts: operations, and configurations of the nodes
\* in several versions
BufferTags ==
    {TagOperation(UuidOf(i)) : i \in 1..NumTags}
        \cup {TagNodeConfig(a, v) : a \in Addrs, v \in 1..MaxVersion}

\* the payloads of the broadcasts: one short, one that makes the length
\* prefix start with the byte 16
BufferPayloads == {Zeros(n) : n \in {0, 4100}}

\* a buffered item, with the tag its bytes were crafted for
Buffered(tag, item) == [tag |-> tag, item |-> item]

InitBuffer ==
    /\ ivBacklog = <<>>
    /\ ivNew = Buffered(TagOperation(UuidOf(1)), RawBroadcast(UuidOf(1), <<>>))
    /\ ivJudged = <<>>
    /\ ivSeen = {}
    /\ ivStore = NewStore(1)
    /\ ivPanicked = FALSE
    /\ ivAdds = 0
    /\ ivOriginated = {}
    /\ ivEcho = [echo |-> FALSE, originated |-> FALSE, called |-> FALSE, fresh |-> FALSE,
                         known |-> FALSE, parsed |-> FALSE, some |-> FALSE,
                         id |-> UuidOf(1), before |-> NewStore(1)]

\* the items of backlog that item does not invalidate
RECURSIVE Retain(_, _)
Retain(backlog, item) ==
    IF backlog = <<>> THEN <<>>
    ELSE IF invalidates(item, Head(backlog).item) THEN Retain(Tail(backlog), item)
    ELSE <<Head(backlog)>> \o Retain(Tail(backlog), item)

\* FocaCommand::SendBroadcast((tag, message)): craft_broadcast, then
\* foca.add_broadcast(broadcast.as_ref())
SendBroadcast(tag, message, io) ==
    /\ ~ivPanicked
    /\ ivAdds < MaxBroadcasts
    /\ ivAdds' = ivAdds + 1
    /\ \E r \in {receive_item(ivSeen, ivStore,
                              AsRefBytes(craft_broadcast(tag, message)), io)} :
           /\ ivPanicked' = r.panic
           /\ ivSeen' = r.seen
           /\ ivStore' = r.store
           /\ ivOriginated' = IF tag.kind = "Operation" /\ ~r.panic
                               THEN ivOriginated \cup {tag.operation_id}
                               ELSE ivOriginated
           /\ ivEcho' = [echo |-> FALSE, originated |-> FALSE, called |-> FALSE, fresh |-> FALSE,
                         known |-> FALSE, parsed |-> FALSE, some |-> FALSE,
                         id |-> UuidOf(1), before |-> NewStore(1)]
           /\ IF r.ret.some
              THEN /\ ivNew' = Buffered(tag, r.ret.item)
                   /\ ivJudged' = [i \in 1..Len(ivBacklog) |->
                                     [tag |-> ivBacklog[i].tag,
                                      inv |-> invalidates(r.ret.item, ivBacklog[i].item)]]
                   /\ ivBacklog' = Append(Retain(ivBacklog, r.ret.item),
                                          Buffered(tag, r.ret.item))
              ELSE UNCHANGED <<ivNew, ivJudged, ivBacklog>>

\* FocaCommand::HandleData(data) with the broadcast of a peer in the data:
\* foca.handle_data hands to receive_item the bytes it parses, those of a
\* RawBroadcast with the operation's id, and holds the item it returns
HandleData(operation_id, payload, io) ==
    /\ ~ivPanicked
    /\ ivAdds < MaxBroadcasts
    /\ ivAdds' = ivAdds + 1
    /\ \E tag \in {TagOperation(operation_id)} :
       \E r \in {receive_item(ivSeen, ivStore,
                              craft_broadcast3(RawBroadcast(operation_id, payload)), io)} :
           /\ ivPanicked' = r.panic
           /\ ivSeen' = r.seen
           /\ ivStore' = r.store
           /\ ivEcho' = [echo |-> TRUE, originated |-> operation_id \in ivOriginated,
                         called |-> r.called,
                         fresh |-> /\ r.ret.some
                                   /\ r.ret.item.id \notin ivSeen \cup {operation_id}
                                   /\ r.ret.item.data = get_state(r.store),
                         known |-> operation_id \in ivSeen,
                         parsed |-> Load(payload).ok,
                         some |-> r.ret.some,
                         id |-> operation_id, before |-> ivStore]
           /\ IF r.ret.some
              THEN /\ ivNew' = Buffered(tag, r.ret.item)
                   /\ ivJudged' = [i \in 1..Len(ivBacklog) |->
                                     [tag |-> ivBacklog[i].tag,
                                      inv |-> invalidates(r.ret.item, ivBacklog[i].item)]]
                   /\ ivBacklog' = Append(Retain(ivBacklog, r.ret.item),
                                          Buffered(tag, r.ret.item))
              ELSE UNCHANGED <<ivNew, ivJudged, ivBacklog>>
    /\ UNCHANGED ivOriginated

-----------------------------------------------------------------------------
(* The Runtime Actor: the task of setup_foca that owns the engine. It      *)
(* takes one FocaCommand at a time from its channel, calls the engine,     *)
(* which pushes its side-effects on the accumulating runtime, and drains   *)
(* them: packets to the socket-writer task (a channel send, where the      *)
(* actor may be suspended), timers to sleeping tasks, notifications to the *)
(* member registry. Other tasks run in between: the socket reader, the     *)
(* timers, the forwarder of inputs, the clients and the socket writer.     *)

\* FocaCommand
Cmd(kind, arg) == [kind |-> kind, arg |-> arg]
NoCmd == Cmd("none", 0)

\* what the engine pushed on the runtime during one call
Effects(send, schedule, notify) == [send |-> send, schedule |-> schedule, notify |-> notify]
NoEffects == Effects(<<>>, <<>>, <<>>)

\* what a call of the engine comes to: it returns Ok or Err to the actor, or
\* the handler it calls panics
EngineResults == {"ok", "err", "panic"}

\* the command in flight, with the side-effects the engine pushed for it and
\* the result the engine returned
Inflight(cmd, effects, result) == [cmd |-> cmd, effects |-> effects, result |-> result]

\* Notification<ID>
MemberUp(id) == [kind |-> "MemberUp", id |-> id]
MemberDown(id) == [kind |-> "MemberDown", id |-> id]
Idle == [kind |-> "Idle", id |-> ID(1, 0)]

\* the timer events of the engine
TimerEvents == 1..NumTimers

\* side-effects of one engine call (handle_timer, handle_data, announce):
\* the engine may push any packets, timers and notifications
EffectChoices ==
    {NoEffects,
     Effects(<<[dst |-> ID(1, 0), data |-> 1]>>, <<>>, <<>>),
     Effects(<<[dst |-> ID(1, 0), data |-> 1], [dst |-> ID(2, 0), data |-> 2]>>,
             <<[delay |-> 1, event |-> 1]>>,
             <<MemberUp(ID(2, 0))>>),
     Effects(<<>>,
             <<[delay |-> 1, event |-> 1], [delay |-> 2, event |-> NumTimers]>>,
             <<MemberDown(ID(2, 0)), Idle, MemberUp(ID(2, 0))>>)}

\* AccumulatingRuntime::new and empty channels; setup_foca does Members::new
\* and add_member(identity), main does Members::new alone; Announce is sent
\* if announce_to is Some
InitActor ==
    /\ rtQueue \in {<<>>, <<Cmd("Announce", ID(1, 0))>>}
    /\ rtInput = <<>>
    /\ rtOut = <<>>
    /\ to_send = <<>>
    /\ to_schedule = <<>>
    /\ notifications = <<>>
    /\ rtPc = "recv"
    /\ rtMembers \in {add_member(EmptyMembers, ID(1, 0)).members, EmptyMembers}
    /\ rtTimers = [e \in TimerEvents |-> 0]
    /\ rtSeen = {}
    /\ rtStore = NewStore(1)
    /\ rtInflight = Inflight(NoCmd, NoEffects, "ok")
    /\ rtLast = [cmd |-> NoCmd, effects |-> NoEffects, changed |-> FALSE,
                 result |-> "ok"]
    /\ rtHandled = 0
    /\ rtArrived = 0
    /\ rtOverlap = FALSE

\* the actor before any command
IdleActor ==
    /\ rtQueue = <<>>
    /\ rtInput = <<>>
    /\ rtOut = <<>>
    /\ to_send = <<>>
    /\ to_schedule = <<>>
    /\ notifications = <<>>
    /\ rtPc = "recv"
    /\ rtMembers = add_member(EmptyMembers, ID(1, 0)).members
    /\ rtTimers = [e \in TimerEvents |-> 0]
    /\ rtSeen = {}
    /\ rtStore = NewStore(1)
    /\ rtInflight = Inflight(NoCmd, NoEffects, "ok")
    /\ rtLast = [cmd |-> NoCmd, effects |-> NoEffects, changed |-> FALSE,
                 result |-> "ok"]
    /\ rtHandled = 0
    /\ rtArrived = 0
    /\ rtOverlap = FALSE

\* a drain of the notifications that handles the last one only
drain_notifications_one(notifs, m, changed) ==
    IF notifs = <<>> THEN [members |-> m, changed |-> changed, left |-> <<>>]
    ELSE [members |-> m, changed |-> changed, left |-> SubSeq(notifs, 1, Len(notifs) - 1)]

\* a drain of the notifications that takes every notification other than
\* MemberUp for a MemberDown
RECURSIVE drain_notifications_down(_, _, _)
drain_notifications_down(notifs, m, changed) ==
    IF notifs = <<>> THEN [members |-> m, changed |-> changed, left |-> <<>>]
    ELSE LET notification == notifs[Len(notifs)]
             rest == SubSeq(notifs, 1, Len(notifs) - 1)
         IN  IF notification.kind = "MemberUp"
             THEN drain_notifications_down(rest, add_member(m, notification.id).members,
                                           changed \/ add_member(m, notification.id).ret)
             ELSE drain_notifications_down(rest, remove_member(m, notification.id).members,
                                           changed \/ remove_member(m, notification.id).ret)

\* while let Some(notification) = runtime.notifications.pop(): MemberUp ->
\* add_member, MemberDown -> remove_member, each or-ed into
\* active_list_has_changed; the others are logged
RECURSIVE drain_notifications(_, _, _)
drain_notifications(notifs, m, changed) ==
    IF notifs = <<>> THEN [members |-> m, changed |-> changed, left |-> <<>>]
    ELSE LET notification == notifs[Len(notifs)]
             rest == SubSeq(notifs, 1, Len(notifs) - 1)
         IN  IF notification.kind = "MemberUp"
             THEN drain_notifications(rest, add_member(m, notification.id).members,
                                      changed \/ add_member(m, notification.id).ret)
             ELSE IF notification.kind = "MemberDown"
             THEN drain_notifications(rest, remove_member(m, notification.id).members,
                                      changed \/ remove_member(m, notification.id).ret)
             ELSE drain_notifications(rest, m, changed)

\* while let Some((delay, event)) = runtime.to_schedule.pop(): a task is
\* spawned that sleeps and then sends Input::Event(event)
RECURSIVE drain_to_schedule(_, _)
drain_to_schedule(sched, timers) ==
    IF sched = <<>> THEN timers
    ELSE drain_to_schedule(SubSeq(sched, 1, Len(sched) - 1),
                           [timers EXCEPT ![sched[Len(sched)].event] = @ + 1])

\* the part of a step after the last packet was handed over: the loops over
\* to_schedule and notifications hold no await, the step ends at the next
\* recv().await
FinishStep(inflight, sched, notifs) ==
    LET d == drain_notifications(notifs, rtMembers, FALSE)
    IN  /\ rtTimers' = drain_to_schedule(sched, rtTimers)
        /\ to_schedule' = <<>>
        /\ notifications' = d.left
        /\ rtMembers' = d.members
        /\ rtLast' = [cmd |-> inflight.cmd, effects |-> inflight.effects,
                      changed |-> d.changed, result |-> inflight.result]
        /\ rtInflight' = Inflight(NoCmd, NoEffects, "ok")
        /\ rtPc' = "recv"

\* an actor that takes the next command while packets are still to be sent
ActorRecv_overlap(effects, result, io) ==
    /\ rtPc \in {"recv", "send"}
    /\ rtQueue # <<>>
    /\ rtHandled < MaxCommands
    /\ LET foca_event == Head(rtQueue)
           r == receive_item(rtSeen, rtStore,
                             AsRefBytes(craft_broadcast(foca_event.arg.tag,
                                                        foca_event.arg.message)), io)
       IN  /\ CASE foca_event.kind = "SendBroadcast" ->
                     /\ effects = NoEffects
                     /\ result = "ok" => ~r.panic
                     /\ result = "panic" => r.panic
                 [] foca_event.kind = "HandleData" ->
                     result = "panic" => effects = NoEffects
                 [] OTHER -> result # "panic"
           /\ rtQueue' = Tail(rtQueue)
           /\ rtHandled' = rtHandled + 1
           /\ IF foca_event.kind = "SendBroadcast" /\ result # "err"
              THEN rtSeen' = r.seen /\ rtStore' = r.store
              ELSE UNCHANGED <<rtSeen, rtStore>>
           /\ IF result = "panic"
              THEN /\ rtPc' = "dead"
                   /\ rtInflight' = Inflight(foca_event, effects, result)
                   /\ UNCHANGED <<to_send, to_schedule, notifications, rtMembers,
                                  rtTimers, rtLast>>
              ELSE /\ to_send' = to_send \o effects.send
                   /\ IF to_send \o effects.send = <<>>
                      THEN FinishStep(Inflight(foca_event, effects, result),
                                      to_schedule \o effects.schedule,
                                      notifications \o effects.notify)
                      ELSE /\ to_schedule' = to_schedule \o effects.schedule
                           /\ notifications' = notifications \o effects.notify
                           /\ rtInflight' = Inflight(foca_event, effects, result)
                           /\ rtPc' = "send"
                           /\ UNCHANGED <<rtMembers, rtTimers, rtLast>>
    /\ UNCHANGED <<rtInput, rtOut, rtArrived, rtOverlap>>

\* an actor that leaves its loop when the engine returns an error
ActorRecv_stop(effects, result, io) ==
    /\ rtPc = "recv"
    /\ rtQueue # <<>>
    /\ rtHandled < MaxCommands
    /\ LET foca_event == Head(rtQueue)
           r == receive_item(rtSeen, rtStore,
                             AsRefBytes(craft_broadcast(foca_event.arg.tag,
                                                        foca_event.arg.message)), io)
       IN  /\ CASE foca_event.kind = "SendBroadcast" ->
                     /\ effects = NoEffects
                     /\ result = "ok" => ~r.panic
                     /\ result = "panic" => r.panic
                 [] foca_event.kind = "HandleData" ->
                     result = "panic" => effects = NoEffects
                 [] OTHER -> result # "panic"
           /\ rtQueue' = Tail(rtQueue)
           /\ rtHandled' = rtHandled + 1
           /\ IF foca_event.kind = "SendBroadcast" /\ result # "err"
              THEN rtSeen' = r.seen /\ rtStore' = r.store
              ELSE UNCHANGED <<rtSeen, rtStore>>
           /\ IF result # "ok"
              THEN /\ rtPc' = "dead"
                   /\ rtInflight' = Inflight(foca_event, effects, result)
                   /\ UNCHANGED <<to_send, to_schedule, notifications, rtMembers,
                                  rtTimers, rtLast>>
              ELSE /\ to_send' = to_send \o effects.send
                   /\ IF to_send \o effects.send = <<>>
                      THEN FinishStep(Inflight(foca_event, effects, result),
                                      to_schedule \o effects.schedule,
                                      notifications \o effects.notify)
                      ELSE /\ to_schedule' = to_schedule \o effects.schedule
                           /\ notifications' = notifications \o effects.notify
                           /\ rtInflight' = Inflight(foca_event, effects, result)
                           /\ rtPc' = "send"
                           /\ UNCHANGED <<rtMembers, rtTimers, rtLast>>
    /\ UNCHANGED <<rtInput, rtOut, rtArrived, rtOverlap>>

\* foca_command_receiver.recv().await returns a command: the match calls the
\* engine (SendBroadcast: craft_broadcast and add_broadcast, whose
\* receive_item may panic; HandleTimer, HandleData, Announce: the engine
\* pushes side-effects on the runtime, and its call of receive_item for a
\* broadcast in the data may panic); the Result of the engine is bound to
\* _ignore_result and not looked at (an Err of add_broadcast is returned
\* before the handler has changed anything); then the drain begins
ActorRecv(effects, result, io) ==
    /\ rtPc = "recv"
    /\ rtQueue # <<>>
    /\ rtHandled < MaxCommands
    /\ LET foca_event == Head(rtQueue)
           r == receive_item(rtSeen, rtStore,
                             AsRefBytes(craft_broadcast(foca_event.arg.tag,
                                                        foca_event.arg.message)), io)
       IN  /\ CASE foca_event.kind = "SendBroadcast" ->
                     /\ effects = NoEffects
                     /\ result = "ok" => ~r.panic
                     /\ result = "panic" => r.panic
                 [] foca_event.kind = "HandleData" ->
                     result = "panic" => effects = NoEffects
                 [] OTHER -> result # "panic"
           /\ rtQueue' = Tail(rtQueue)
           /\ rtHandled' = rtHandled + 1
           /\ IF foca_event.kind = "SendBroadcast" /\ result # "err"
              THEN rtSeen' = r.seen /\ rtStore' = r.store
              ELSE UNCHANGED <<rtSeen, rtStore>>
           /\ IF result = "panic"
              THEN /\ rtPc' = "dead"
                   /\ rtInflight' = Inflight(foca_event, effects, result)
                   /\ UNCHANGED <<to_send, to_schedule, notifications, rtMembers,
                                  rtTimers, rtLast>>
              ELSE /\ to_send' = to_send \o effects.send
                   /\ IF to_send \o effects.send = <<>>
                      THEN FinishStep(Inflight(foca_event, effects, result),
                                      to_schedule \o effects.schedule,
                                      notifications \o effects.notify)
                      ELSE /\ to_schedule' = to_schedule \o effects.schedule
                           /\ notifications' = notifications \o effects.notify
                           /\ rtInflight' = Inflight(foca_event, effects, result)
                           /\ rtPc' = "send"
                           /\ UNCHANGED <<rtMembers, rtTimers, rtLast>>
    /\ UNCHANGED <<rtInput, rtOut, rtArrived, rtOverlap>>

\* while let Some((dst, data)) = runtime.to_send.pop(): the packet is sent
\* to the socket-writer task; the actor is suspended while the channel is
\* full. After the last packet the step runs to its end.
ActorSend ==
    /\ rtPc = "send"
    /\ to_send # <<>>
    /\ Len(rtOut) < ChannelCap
    /\ rtOut' = Append(rtOut, [dst |-> to_send[Len(to_send)].dst.addr,
                               data |-> to_send[Len(to_send)].data])
    /\ to_send' = SubSeq(to_send, 1, Len(to_send) - 1)
    /\ IF Len(to_send) = 1
       THEN FinishStep(rtInflight, to_schedule, notifications)
       ELSE UNCHANGED <<to_schedule, notifications, rtMembers, rtTimers, rtLast,
                        rtInflight, rtPc>>
    /\ UNCHANGED <<rtQueue, rtInput, rtSeen, rtStore, rtHandled, rtArrived, rtOverlap>>

\* the socket-writer task: rx_send_data.recv(), socket.send_to
SocketWriter ==
    /\ rtOut # <<>>
    /\ rtOut' = Tail(rtOut)
    /\ UNCHANGED <<rtQueue, rtInput, to_send, to_schedule, notifications, rtPc,
                   rtMembers, rtTimers, rtSeen, rtStore, rtInflight, rtLast,
                   rtHandled, rtArrived, rtOverlap>>

\* the socket-reader task: a datagram arrives, tx_foca.send(Input::Data(..))
SocketReader(data) ==
    /\ rtArrived < MaxInputs
    /\ Len(rtInput) < ChannelCap
    /\ rtInput' = Append(rtInput, Cmd("Data", data))
    /\ rtArrived' = rtArrived + 1
    /\ UNCHANGED <<rtQueue, rtOut, to_send, to_schedule, notifications, rtPc,
                   rtMembers, rtTimers, rtSeen, rtStore, rtInflight, rtLast,
                   rtHandled, rtOverlap>>

\* a spawned timer task: the sleep is over, own_input_handle.send(Input::Event(event))
TimerFires(event) ==
    /\ rtTimers[event] > 0
    /\ Len(rtInput) < ChannelCap
    /\ rtTimers' = [rtTimers EXCEPT ![event] = @ - 1]
    /\ rtInput' = Append(rtInput, Cmd("Event", event))
    /\ UNCHANGED <<rtQueue, rtOut, to_send, to_schedule, notifications, rtPc,
                   rtMembers, rtSeen, rtStore, rtInflight, rtLast, rtHandled,
                   rtArrived, rtOverlap>>

\* the forwarding task: rx_foca.recv(), then the matching FocaCommand is sent
\* to the actor's channel
Forward ==
    /\ rtInput # <<>>
    /\ Len(rtQueue) < ChannelCap
    /\ rtInput' = Tail(rtInput)
    /\ rtQueue' = Append(rtQueue,
                         Cmd(IF Head(rtInput).kind = "Event" THEN "HandleTimer"
                             ELSE IF Head(rtInput).kind = "Data" THEN "HandleData"
                             ELSE "Announce",
                             Head(rtInput).arg))
    /\ rtOverlap' = (rtOverlap \/ rtPc = "send")
    /\ UNCHANGED <<rtOut, to_send, to_schedule, notifications, rtPc, rtMembers,
                   rtTimers, rtSeen, rtStore, rtInflight, rtLast, rtHandled, rtArrived>>

\* a client: HolyDiverController::set_field sends SendBroadcast((tag, message))
ClientSend(tag, message) ==
    /\ rtArrived < MaxInputs
    /\ Len(rtQueue) < ChannelCap
    /\ rtQueue' = Append(rtQueue, Cmd("SendBroadcast", [tag |-> tag, message |-> message]))
    /\ rtArrived' = rtArrived + 1
    /\ rtOverlap' = (rtOverlap \/ rtPc = "send")
    /\ UNCHANGED <<rtInput, rtOut, to_send, to_schedule, notifications, rtPc, rtMembers,
                   rtTimers, rtSeen, rtStore, rtInflight, rtLast, rtHandled>>

-----------------------------------------------------------------------------
(* The nodes *)

\* node 1 is A (127.0.0.1:9000), node 2 is B (127.0.0.1:9001). The actor id
\* of a fresh document is the Debug string of the identity, "ID(<addr>, <bump>)",
\* so the actor ids are ordered as the addresses: actor n stands for node n's.
Nodes == {1, 2}

ActorOf(n) == n

\* the fields the clients of the nodes write
WriteFields == {"name"}

\* message_handler has been called for no operation id
NoCalls == [x \in {} |-> 0]

InitNodes ==
    /\ store = [n \in Nodes |-> NewStore(ActorOf(n))]
    /\ seen_op_ids = [n \in Nodes |-> {}]
    /\ calls = [n \in Nodes |-> NoCalls]
    /\ panicked = [n \in Nodes |-> FALSE]
    /\ wire = {}
    /\ written = <<>>
    /\ last = [kind |-> "init", node |-> 1, dup |-> FALSE, ret |-> "none"]

\* PUT /state/{field} on node n: HolyDiverController::set_field writes the
\* field and persists, mints an operation id and broadcasts (FullSync,
\* get_state()). The engine carries the operation to the handlers in the
\* form receive_item parses: a serialized RawBroadcast of the operation id
\* and the snapshot.
SetField(n, f, v, io) ==
    /\ Len(written) < MaxOps
    /\ LET st == set_field(store[n], f, v, io)
           id == UuidOf(Len(written) + 1)
       IN  /\ store' = [store EXCEPT ![n] = st]
           /\ wire' = wire \cup {craft_broadcast3(RawBroadcast(id, get_state(st)))}
    /\ written' = Append(written, [node |-> n, field |-> f, val |-> v])
    /\ last' = [kind |-> "set", node |-> n, dup |-> FALSE, ret |-> "ok"]
    /\ UNCHANGED <<seen_op_ids, calls, panicked>>

\* The engine of node n hands a broadcast payload to Handler::receive_item
\* (payloads are delivered any number of times, in any order). A returned
\* item is buffered by the engine, which sends its bytes (as_ref) on.
Deliver(n, data, io) ==
    /\ ~panicked[n]
    /\ data \in wire
    /\ LET r == receive_item(seen_op_ids[n], store[n], data, io)
           b == DecRawBroadcast(data)
       IN  IF r.panic
           THEN /\ panicked' = [panicked EXCEPT ![n] = TRUE]
                /\ last' = [kind |-> "recv", node |-> n, dup |-> FALSE, ret |-> "panic"]
                /\ UNCHANGED <<store, seen_op_ids, calls, wire>>
           ELSE /\ store' = [store EXCEPT ![n] = r.store]
                /\ seen_op_ids' = [seen_op_ids EXCEPT ![n] = r.seen]
                /\ calls' = IF r.called
                            THEN [calls EXCEPT ![n] =
                                    Insert(@, b.val.id, Counter(@, b.val.id) + 1)]
                            ELSE calls
                /\ wire' = IF r.ret.some THEN wire \cup {AsRefBytes(r.ret.item)} ELSE wire
                /\ last' = [kind |-> "recv", node |-> n,
                            dup |-> b.val.id \in seen_op_ids[n],
                            ret |-> IF r.ret.some THEN "some" ELSE "none"]
                /\ UNCHANGED panicked
    /\ UNCHANGED written

-----------------------------------------------------------------------------
(* The front ends of one node: the requests of swim/server.rs and the      *)
(* calls of lib.rs on the controller, HolyDiverController of swim/core.rs, *)
(* which writes the store and sends SendBroadcast to the actor             *)

\* a request and its answer: the status (0: the handler panicked and gave no
\* answer), the body, whether the field was absent, whether the channel was
\* closed when the request came, whether the store holds the value of the
\* request at its end, the commands the request sent to the actor, and
\* whether the store was left as it was
Response(kind, status, body, absent, closed, stored, sent, untouched) ==
    [kind |-> kind, status |-> status, body |-> body, absent |-> absent,
     closed |-> closed, stored |-> stored, sent |-> sent, untouched |-> untouched]

\* the datagrams of the peers: the broadcast of an operation of a peer
HttpDatagrams == {craft_broadcast3(RawBroadcast(UuidOf(101), Save(DocB1)))}

\* init() of lib.rs: HolyDiverDataHandler::new, setup_foca, the controller
InitHttp ==
    /\ htStore = NewStore(1)
    /\ htSeen = {}
    /\ htCtlPoisoned = FALSE
    /\ htLock = "none"
    /\ htChan = <<>>
    /\ htClosed = FALSE
    /\ htWriter = [pc |-> "idle", cmd |-> NoCmd]
    /\ htActor = [pc |-> "recv", cmd |-> NoCmd]
    /\ htResp = Response("none", 0, "", FALSE, FALSE, FALSE, <<>>, TRUE)
    /\ htNextOp = 1
    /\ htReqs = 0

\* whether the store holds value under field
Holds(st, field, value) ==
    LET r == get_field(st, field)
    IN  r.some /\ r.val = value_to_string(value)

\* GET /state/{field} of server.rs:
\* controller.lock().unwrap().get_field(field).unwrap(), then 200 with the
\* body "{field}: {value}". The unwrap of None panics, with the guard of the
\* controller's mutex alive: the mutex is poisoned
ServerGetField(field) ==
    /\ htReqs < MaxRequests
    /\ htWriter.pc = "idle"
    /\ htReqs' = htReqs + 1
    /\ LET r == get_field(htStore, field)
           absent == ~htCtlPoisoned /\ ~r.panic /\ ~r.some
       IN  /\ htCtlPoisoned' = (htCtlPoisoned \/ r.panic \/ ~r.some)
           /\ htStore' = IF ~htCtlPoisoned /\ r.panic THEN Poison(htStore) ELSE htStore
           /\ htResp' = IF htCtlPoisoned \/ r.panic \/ ~r.some
                        THEN Response("GET", 0, "", absent, htClosed, FALSE, <<>>,
                                      htCtlPoisoned \/ ~r.panic)
                        ELSE Response("GET", 200, field \o ": " \o r.val, FALSE, htClosed,
                                      FALSE, <<>>, TRUE)
    /\ UNCHANGED <<htSeen, htLock, htChan, htClosed, htWriter, htActor, htNextOp>>

\* get_field of lib.rs:
\* controller.lock().unwrap().get_field(field_name).unwrap_or("N/A")
LibGetField(field) ==
    /\ htReqs < MaxRequests
    /\ htWriter.pc = "idle"
    /\ htReqs' = htReqs + 1
    /\ LET r == get_field(htStore, field)
           absent == ~htCtlPoisoned /\ ~r.panic /\ ~r.some
       IN  /\ htCtlPoisoned' = (htCtlPoisoned \/ r.panic)
           /\ htStore' = IF ~htCtlPoisoned /\ r.panic THEN Poison(htStore) ELSE htStore
           /\ htResp' = IF htCtlPoisoned \/ r.panic
                        THEN Response("lib_get", 0, "", FALSE, htClosed, FALSE, <<>>,
                                      htCtlPoisoned)
                        ELSE Response("lib_get", 200, IF r.some THEN r.val ELSE "N/A",
                                      absent, htClosed, FALSE, <<>>, TRUE)
    /\ UNCHANGED <<htSeen, htLock, htChan, htClosed, htWriter, htActor, htNextOp>>

\* PUT /state/{field} of server.rs:
\* controller.lock().unwrap().set_field(field, update.value); the future
\* that the async fn set_field returns is not awaited and is dropped, so
\* nothing of set_field runs; then HttpResponse::Ok()
UpdateField(field, value) ==
    /\ htReqs < MaxRequests
    /\ htWriter.pc = "idle"
    /\ htReqs' = htReqs + 1
    /\ htResp' = Response("PUT", IF htCtlPoisoned THEN 0 ELSE 200, "", FALSE, htClosed,
                          Holds(htStore, field, value), <<>>, TRUE)
    /\ UNCHANGED <<htStore, htSeen, htCtlPoisoned, htLock, htChan, htClosed, htWriter,
                   htActor, htNextOp>>

\* set_field of lib.rs:
\* controller.lock().unwrap().set_field(field_name, field_value).await.unwrap()
\* with HolyDiverController::set_field: handler = data_handler.lock(),
\* handler.set_field(..).await?, then foca_command_sender.send(SendBroadcast((
\* SyncOperation { Uuid::new_v4() }, GossipMessage(FullSync, handler.get_state())
\* ))).await? while handler is alive. The send returns at once when the
\* channel has room, fails when the channel is closed, and suspends the task
\* when the channel is full
LibSetField(field, value, io) ==
    /\ htReqs < MaxRequests
    /\ htWriter.pc = "idle"
    /\ htReqs' = htReqs + 1
    /\ IF htCtlPoisoned
       THEN /\ htResp' = Response("lib_set", 0, "", FALSE, htClosed, FALSE, <<>>, TRUE)
            /\ UNCHANGED <<htStore, htCtlPoisoned, htLock, htChan, htWriter, htNextOp>>
       ELSE LET st == set_field(htStore, field, value, io)
                cmd == Cmd("SendBroadcast",
                           [tag |-> TagOperation(UuidOf(htNextOp)),
                            message |-> GossipMessage("FullSync", get_state(st))])
            IN  /\ htStore' = st
                /\ IF st.poisoned \/ htClosed
                   THEN /\ htCtlPoisoned' = TRUE
                        /\ htResp' = Response("lib_set", 0, "", FALSE, htClosed,
                                              Holds(st, field, value), <<>>, FALSE)
                        /\ UNCHANGED <<htLock, htChan, htWriter, htNextOp>>
                   ELSE IF Len(htChan) < ChannelCap
                   THEN /\ htChan' = Append(htChan, cmd)
                        /\ htNextOp' = htNextOp + 1
                        /\ htResp' = Response("lib_set", 200, "", FALSE, htClosed,
                                              Holds(st, field, value), <<cmd>>, FALSE)
                        /\ UNCHANGED <<htCtlPoisoned, htLock, htWriter>>
                   ELSE /\ htWriter' = [pc |-> "sending", cmd |-> cmd]
                        /\ htLock' = "writer"
                        /\ htNextOp' = htNextOp + 1
                        /\ htResp' = Response("lib_set_suspended", 0, "", FALSE, htClosed,
                                              Holds(st, field, value), <<>>, FALSE)
                        /\ UNCHANGED <<htCtlPoisoned, htChan>>
    /\ UNCHANGED <<htSeen, htClosed, htActor>>

\* the suspended send of HolyDiverController::set_field goes on: the channel
\* has room, or it is closed and the error reaches the unwrap of lib.rs; the
\* guards are dropped at the end
LibSetFieldSend ==
    /\ htWriter.pc = "sending"
    /\ htClosed \/ Len(htChan) < ChannelCap
    /\ htWriter' = [pc |-> "idle", cmd |-> NoCmd]
    /\ htLock' = "none"
    /\ IF htClosed
       THEN /\ htCtlPoisoned' = TRUE
            /\ htResp' = Response("lib_set", 0, "", FALSE, TRUE, FALSE, <<>>, FALSE)
            /\ UNCHANGED htChan
       ELSE /\ htChan' = Append(htChan, htWriter.cmd)
            /\ htResp' = Response("lib_set", 200, "", FALSE, FALSE, FALSE,
                                  <<htWriter.cmd>>, FALSE)
            /\ UNCHANGED htCtlPoisoned
    /\ UNCHANGED <<htStore, htSeen, htClosed, htActor, htNextOp, htReqs>>

\* the forwarding task sends HandleData(data) for a datagram of a peer; the
\* channel serves its senders in the order they came, so a send that comes
\* while set_field is suspended in its send waits behind it
HttpForward(data) ==
    /\ htReqs < MaxRequests
    /\ ~htClosed
    /\ htWriter.pc = "idle"
    /\ Len(htChan) < ChannelCap
    /\ htReqs' = htReqs + 1
    /\ htChan' = Append(htChan, Cmd("HandleData", data))
    /\ UNCHANGED <<htStore, htSeen, htCtlPoisoned, htLock, htClosed, htWriter, htActor,
                   htResp, htNextOp>>

\* the bytes the engine hands to receive_item for a command
CommandBytes(cmd) ==
    IF cmd.kind = "SendBroadcast"
    THEN AsRefBytes(craft_broadcast(cmd.arg.tag, cmd.arg.message))
    ELSE cmd.arg

\* receive_item reaches message_handler, which locks the mutex around the
\* store: the bytes are those of a broadcast whose id is not in seen_op_ids
NeedsLock(cmd) ==
    LET b == DecRawBroadcast(CommandBytes(cmd))
    IN  b.ok /\ b.val.id \notin htSeen

\* foca_command_receiver.recv().await returns a command
HttpActorRecv ==
    /\ htActor.pc = "recv"
    /\ htChan # <<>>
    /\ htActor' = [pc |-> "taken", cmd |-> Head(htChan)]
    /\ htChan' = Tail(htChan)
    /\ UNCHANGED <<htStore, htSeen, htCtlPoisoned, htLock, htClosed, htWriter, htResp,
                   htNextOp, htReqs>>

\* the actor handles the command it has taken: the engine calls
\* receive_item, which blocks in message_handler while another task holds
\* the mutex around the store. A panic ends the task and drops the receiver
HttpActorHandle(io) ==
    /\ htActor.pc = "taken"
    /\ ~(NeedsLock(htActor.cmd) /\ htLock = "writer")
    /\ LET r == receive_item(htSeen, htStore, CommandBytes(htActor.cmd), io)
       IN  /\ htSeen' = r.seen
           /\ htStore' = r.store
           /\ htActor' = [pc |-> IF r.panic THEN "dead" ELSE "recv", cmd |-> NoCmd]
           /\ htClosed' = r.panic
    /\ UNCHANGED <<htCtlPoisoned, htLock, htChan, htWriter, htResp, htNextOp, htReqs>>

-----------------------------------------------------------------------------
(* Specifications *)

IdleID ==
    /\ idcur = ID(1, 0)
    /\ idprev = ID(1, 0)
    /\ idres = [some |-> FALSE, called |-> FALSE]
    /\ idsteps = 0

NextMembers ==
    \/ \E a \in Addrs, b \in CallBumps :
         AddMember(ID(a, b)) /\ UNCHANGED <<idVars, frVars, mgVars, nodeVars, dsVars, ivVars, rtVars, htVars>>
    \/ \E a \in Addrs, b \in CallBumps :
         RemoveMember(ID(a, b)) /\ UNCHANGED <<idVars, frVars, mgVars, nodeVars, dsVars, ivVars, rtVars, htVars>>

InitSpecMembers == InitRegistry /\ IdleID /\ IdleFraming /\ IdleMerge /\ InitNodes /\ InitStore /\ InitBuffer /\ IdleActor /\ InitHttp

SpecMembers == InitSpecMembers /\ [][NextMembers]_vars

NextID == Renew /\ UNCHANGED <<memVars, frVars, mgVars, nodeVars, dsVars, ivVars, rtVars, htVars>>

InitSpecID == InitID /\ InitMembers /\ IdleFraming /\ IdleMerge /\ InitNodes /\ InitStore /\ InitBuffer /\ IdleActor /\ InitHttp

SpecID == InitSpecID /\ [][NextID]_vars

NextFraming ==
    \/ Craft /\ UNCHANGED <<memVars, idVars, mgVars, nodeVars, dsVars, ivVars, rtVars, htVars>>
    \/ \E io \in WorkingDisk : Receive(io) /\ UNCHANGED <<memVars, idVars, mgVars, nodeVars, dsVars, ivVars, rtVars, htVars>>

InitSpecFraming == InitFraming /\ InitMembers /\ IdleID /\ IdleMerge /\ InitNodes /\ InitStore /\ InitBuffer /\ IdleActor /\ InitHttp

SpecFraming == InitSpecFraming /\ [][NextFraming]_vars

NextMerge ==
    \E s \in MergePayloads : \E io \in WorkingDisk : MergeStep(s, io) /\ UNCHANGED <<memVars, idVars, frVars, nodeVars, dsVars, ivVars, rtVars, htVars>>

InitSpecMerge == InitMerge /\ InitMembers /\ IdleID /\ IdleFraming /\ InitNodes /\ InitStore /\ InitBuffer /\ IdleActor /\ InitHttp

SpecMerge == InitSpecMerge /\ [][NextMerge]_vars

NextStore ==
    \/ \E f \in {"name", "color"} : \E j \in 1..Len(ValNames) : \E io \in DiskOutcomes :
         StoreSetField(f, ValNames[j], io)
            /\ UNCHANGED <<memVars, idVars, frVars, mgVars, nodeVars, ivVars, rtVars, htVars>>
    \/ \E f \in {"name", "color"} :
         StoreGetField(f) /\ UNCHANGED <<memVars, idVars, frVars, mgVars, nodeVars, ivVars, rtVars, htVars>>
    \/ \E payload \in StorePayloads : \E io \in DiskOutcomes :
         StoreMerge(payload, io) /\ UNCHANGED <<memVars, idVars, frVars, mgVars, nodeVars, ivVars, rtVars, htVars>>
    \/ \E io \in ReadOutcomes : \E loaded_actor \in LoadedActors :
         StoreRestart(io, loaded_actor)
            /\ UNCHANGED <<memVars, idVars, frVars, mgVars, nodeVars, ivVars, rtVars, htVars>>
    \/ \E f \in {"name", "color"} : \E j \in 1..Len(ValNames) :
       \E io \in {"write_none", "write_short"} : \E loaded_actor \in LoadedActors :
         StoreCrash(f, ValNames[j], io, loaded_actor)
            /\ UNCHANGED <<memVars, idVars, frVars, mgVars, nodeVars, ivVars, rtVars, htVars>>

InitSpecStore == InitStore /\ InitMembers /\ IdleID /\ IdleFraming /\ IdleMerge /\ InitNodes /\ InitBuffer /\ IdleActor /\ InitHttp

SpecStore == InitSpecStore /\ [][NextStore]_vars

NextBuffer ==
    \/ \E tag \in BufferTags : \E p \in BufferPayloads : \E io \in WorkingDisk :
         SendBroadcast(tag, GossipMessage("FullSync", p), io)
            /\ UNCHANGED <<memVars, idVars, frVars, mgVars, nodeVars, dsVars, rtVars, htVars>>
    \/ \E i \in 1..NumTags : \E p \in {Save(DocA1), Zeros(3)} : \E io \in WorkingDisk :
         HandleData(UuidOf(i), p, io)
            /\ UNCHANGED <<memVars, idVars, frVars, mgVars, nodeVars, dsVars, rtVars, htVars>>

InitSpecBuffer ==
    InitBuffer /\ InitMembers /\ IdleID /\ IdleFraming /\ IdleMerge /\ InitNodes /\ InitStore
        /\ IdleActor /\ InitHttp

SpecBuffer == InitSpecBuffer /\ [][NextBuffer]_vars

OtherThanActor == <<memVars, idVars, frVars, mgVars, nodeVars, dsVars, ivVars, htVars>>

NextActor ==
    \/ \E effects \in EffectChoices : \E result \in EngineResults : \E io \in WorkingDisk :
         ActorRecv(effects, result, io) /\ UNCHANGED OtherThanActor
    \/ ActorSend /\ UNCHANGED OtherThanActor
    \/ SocketWriter /\ UNCHANGED OtherThanActor
    \/ \E data \in 1..2 : SocketReader(data) /\ UNCHANGED OtherThanActor
    \/ \E event \in TimerEvents : TimerFires(event) /\ UNCHANGED OtherThanActor
    \/ Forward /\ UNCHANGED OtherThanActor
    \/ \E p \in BufferPayloads :
         ClientSend(TagOperation(UuidOf(1)), GossipMessage("FullSync", p))
            /\ UNCHANGED OtherThanActor

InitSpecActor ==
    InitActor /\ InitMembers /\ IdleID /\ IdleFraming /\ IdleMerge /\ InitNodes /\ InitStore
        /\ InitBuffer /\ InitHttp

SpecActor == InitSpecActor /\ [][NextActor]_vars

OtherThanHttp == <<memVars, idVars, frVars, mgVars, nodeVars, dsVars, ivVars, rtVars>>

NextHttp ==
    \/ \E f \in WriteFields : ServerGetField(f) /\ UNCHANGED OtherThanHttp
    \/ \E f \in WriteFields : LibGetField(f) /\ UNCHANGED OtherThanHttp
    \/ \E f \in WriteFields : \E j \in 1..Len(ValNames) :
         UpdateField(f, ValNames[j]) /\ UNCHANGED OtherThanHttp
    \/ \E f \in WriteFields : \E j \in 1..Len(ValNames) : \E io \in WorkingDisk :
         LibSetField(f, ValNames[j], io) /\ UNCHANGED OtherThanHttp
    \/ LibSetFieldSend /\ UNCHANGED OtherThanHttp
    \/ \E data \in HttpDatagrams : HttpForward(data) /\ UNCHANGED OtherThanHttp
    \/ HttpActorRecv /\ UNCHANGED OtherThanHttp
    \/ \E io \in WorkingDisk : HttpActorHandle(io) /\ UNCHANGED OtherThanHttp

InitSpecHttp ==
    InitHttp /\ InitMembers /\ IdleID /\ IdleFraming /\ IdleMerge /\ InitNodes /\ InitStore
        /\ InitBuffer /\ IdleActor

SpecHttp == InitSpecHttp /\ [][NextHttp]_vars

Next ==
    \/ \E n \in Nodes : \E f \in WriteFields : \E j \in 1..Len(ValNames) :
       \E io \in WorkingDisk : SetField(n, f, ValNames[j], io)
            /\ UNCHANGED <<memVars, idVars, frVars, mgVars, dsVars, ivVars, rtVars, htVars>>
    \/ \E n \in Nodes : \E data \in wire : \E io \in WorkingDisk :
         Deliver(n, data, io) /\ UNCHANGED <<memVars, idVars, frVars, mgVars, dsVars, ivVars, rtVars, htVars>>

Init == InitNodes /\ InitMembers /\ IdleID /\ IdleFraming /\ IdleMerge /\ InitStore /\ InitBuffer /\ IdleActor
        /\ InitHttp

Spec == Init /\ [][Next]_vars

-----------------------------------------------------------------------------
(* Claims about the Broadcast Handler and the Document Store *)

\* C1: Dedup. On every node, whatever broadcasts are delivered, however often
\* and in whatever order, receive_item calls the message handler at most once
\* for each operation id.
C1_Dedup ==
    \A n \in Nodes : \A id \in DOMAIN calls[n] : calls[n][id] <= 1

\* C1 witness: a broadcast was delivered again to a node whose handler had
\* been called for its operation id, after a second operation was delivered.
C1_Witness ==
    /\ last.kind = "recv" /\ last.dup
    /\ Cardinality(DOMAIN calls[last.node]) = 2
    /\ \A id \in DOMAIN calls[last.node] : calls[last.node][id] = 1

\* C2: a receive_item call for an operation id that is already in
\* seen_op_ids returns None and changes neither seen_op_ids nor the document
\* nor the persisted file (and nothing is handed on for re-broadcast).
C2_SeenIsNoOp ==
    [][(last'.kind = "recv" /\ last'.dup) =>
          /\ last'.ret = "none"
          /\ seen_op_ids' = seen_op_ids
          /\ store' = store
          /\ wire' = wire
          /\ calls' = calls]_vars

\* C2 witness: receive_item returned None for an operation id that was in
\* seen_op_ids, on a node that has written locally since.
C2_Witness ==
    /\ last.kind = "recv" /\ last.dup /\ last.ret = "none"
    /\ seen_op_ids[last.node] # {}
    /\ \E i \in 1..Len(written) : written[i].node = last.node

\* C3 (as claimed): receive_item on a fresh handler, given the bytes of
\* craft_broadcast(tag, message), returns Some(item) whose bytes are the
\* crafted bytes.
C3_RoundTrip ==
    frPc = "received" =>
        /\ ~frOut.panic
        /\ frOut.ret.some
        /\ AsRefBytes(frOut.ret.item) = AsRefBytes(frCrafted)

\* every operation written so far has reached the store of every node: the
\* node wrote it, or its handler was called for the operation's id
AllDelivered ==
    \A i \in 1..Len(written) : \A n \in Nodes :
        written[i].node = n \/ Counter(calls[n], UuidOf(i)) = 1

\* C4 (as claimed): Convergence. Once every broadcast has been delivered to
\* both nodes, get_field returns the same on both nodes for every field.
C4_Convergence ==
    (Len(written) > 0 /\ AllDelivered) =>
        \A i \in 1..Len(FieldNames) :
            get_field(store[1], FieldNames[i]) = get_field(store[2], FieldNames[i])

\* C5 (as claimed): both nodes started from an empty data directory; once
\* the one write name=dio made on node A has been delivered to node B,
\* get_field(name) on B returns dio.
C5_Propagation ==
    \A A, B \in Nodes :
        (/\ A # B
         /\ written = <<[node |-> A, field |-> "name", val |-> "dio"]>>
         /\ Counter(calls[B], UuidOf(1)) = 1)
        => get_field(store[B], "name")
             = [panic |-> FALSE, some |-> TRUE, val |-> value_to_string("dio")]

\* C6: Idempotent merge. Merging a snapshot that was merged before, with any
\* merges in between, leaves the store (document and file) as it was: the
\* state after merge(s1); merge(s2); merge(s1) is the state after merge(s1);
\* merge(s2).
C6_IdempotentMerge ==
    \A i, j \in 1..Len(mgLog) :
        (i < j /\ mgLog[i] = mgLog[j]) =>
            mgAfter[j] = mgAfter[j - 1]

\* C6 witness: merge(s1); merge(s2); merge(s1) with two different documents,
\* each of which changed the local document when it was first merged.
C6_Witness ==
    /\ Len(mgLog) = 3
    /\ mgLog[3] = mgLog[1] /\ mgLog[2] # mgLog[1]
    /\ Load(mgLog[1]).ok /\ Load(mgLog[2]).ok
    /\ mgAfter[2].doc # mgAfter[1].doc
    /\ mgAfter[1].doc.puts # {}
    /\ mgAfter[1].doc.puts # mgAfter[2].doc.puts

-----------------------------------------------------------------------------
(* Claims about the Member Registry (SpecMembers) *)

\* C7: add_member returns true exactly when the counter of the identity's
\* address goes from 0 to 1, remove_member returns true exactly when it goes
\* from 1 to 0, and the bump of the identity never influences the result.
C7_RegistryTransitions ==
    /\ mlast.op = "add" =>
         (mlast.ret <=> (Counter(mprev, mlast.id.addr) = 0
                         /\ Counter(members, mlast.id.addr) = 1))
    /\ mlast.op = "remove" =>
         (mlast.ret <=> (Counter(mprev, mlast.id.addr) = 1
                         /\ Counter(members, mlast.id.addr) = 0))
    /\ \A a \in Addrs : \A b1, b2 \in CallBumps :
         /\ add_member(members, ID(a, b1)) = add_member(members, ID(a, b2))
         /\ remove_member(members, ID(a, b1)) = remove_member(members, ID(a, b2))

\* C7 witness: a remove_member that took an address from 1 to 0 and returned
\* true, after an add_member for the same address with another bump.
C7_Witness ==
    /\ mlast.op = "remove" /\ mlast.ret
    /\ Counter(mprev, mlast.id.addr) = 1
    /\ adds[mlast.id.addr] >= 2
    /\ mlast.id.bump = TwoPow16 - 1

\* C8 (as claimed): the registry holds no entry whose counter is 0, and
\* addresses() lists precisely the addresses with more adds than effective
\* removes.
C8_NoZeroEntry ==
    /\ \A a \in DOMAIN members : members[a] > 0
    /\ addrs(members) = {a \in Addrs : adds[a] > effRemoves[a]}
    /\ \A a \in Addrs : Counter(members, a) = adds[a] - effRemoves[a]

\* C8 witness: an address was added twice and removed twice, and is no
\* longer listed, while another address is.
C8_Witness ==
    \E a, b \in Addrs :
        /\ adds[a] = 2 /\ effRemoves[a] = 2 /\ a \notin addrs(members)
        /\ b \in addrs(members)

C9_Witness ==
    /\ mlast.op = "remove"
    /\ mlast.id.addr \notin DOMAIN mprev
    /\ DOMAIN mprev # {}

-----------------------------------------------------------------------------
(* Claims about the Peer Identity (SpecID) *)

\* C10: renew() never returns None; the identity it returns has the same
\* address and the bump incremented by one, wrapping from 65535 to 0.
C10_Renew ==
    idsteps > 0 =>
        /\ idres.some
        /\ idres.id.addr = idprev.addr
        /\ idres.id.bump = IF idprev.bump = 65535 THEN 0 ELSE idprev.bump + 1
        /\ idres.id.bump \in 0..65535

\* C10 witness: renew() was called on an identity with bump 65535 and
\* returned bump 0.
C10_Witness ==
    /\ idsteps > 0
    /\ idprev.bump = 65535
    /\ idres.some
    /\ idres.id.bump = 0

-----------------------------------------------------------------------------
(* Claims about one Document Store and its data directory *)

\* the Option<String> get_field returns for a field that holds v
SomeValue(v) == [panic |-> FALSE, some |-> TRUE, val |-> value_to_string(v)]

\* C14: Local read-your-write. On a node started with an empty data
\* directory, with no merge so far, get_field(f) returns the value of the
\* last set_field(f, v) that returned, whatever the disk did.
C14_ReadYourWrite ==
    (dsClean /\ ~dsStore.poisoned) =>
        \A f \in DOMAIN dsWritten :
            dsWritten[f] # "none" => get_field(dsStore, f) = SomeValue(dsWritten[f])

\* C14 witness: both fields were written, name last with bob, and the last
\* write was not persisted.
C14_Witness ==
    /\ dsClean /\ ~dsStore.poisoned
    /\ dsWritten["name"] = "bob" /\ dsWritten["color"] = "dio"
    /\ dsLast.op = "set" /\ dsLast.io = "write_none"

\* C15: Persistence survives restart. After a set_field(f, v) that returned
\* and whose store_data succeeded, a restart that reads the file back gives a
\* store whose get_field(f) returns v.
C15_SurvivesRestart ==
    (/\ dsLast.op = "restart" /\ dsLast.io = "ok"
     /\ dsPrev.op = "set" /\ dsPrev.io = "ok"
     /\ ~dsBefore.poisoned)
    => get_field(dsStore, dsPrev.field) = SomeValue(dsPrev.val)

\* C15 witness: a restart after a persisted write of color; the document
\* was loaded from the file and has another actor id.
C15_Witness ==
    /\ dsLast.op = "restart" /\ dsLast.io = "ok"
    /\ dsPrev.op = "set" /\ dsPrev.io = "ok" /\ ~dsBefore.poisoned
    /\ dsPrev.field = "color"
    /\ dsStore.doc.puts # {}
    /\ dsStore.doc.actor # StoreActor

\* C16: after a set_field, or a merge that succeeded, whose store_data met no
\* failure, automerge.dat holds a snapshot of the in-memory document.
C16_FileIsSnapshot ==
    (/\ dsLast.io = "ok" /\ ~dsStore.poisoned
     /\ \/ dsLast.op = "set"
        \/ /\ dsLast.op = "merge"
           /\ Load(dsLast.payload).ok
           /\ ~MergeFails(dsBefore.doc, Load(dsLast.payload).doc))
    => /\ dsStore.file.exists
       /\ Load(dsStore.file.bytes).ok
       /\ Load(dsStore.file.bytes).doc.makes = dsStore.doc.makes
       /\ Load(dsStore.file.bytes).doc.puts = dsStore.doc.puts

\* C16 witness: a persisted write after a merge whose store_data failed.
C16_Witness ==
    /\ dsLast.op = "set" /\ dsLast.io = "ok" /\ ~dsStore.poisoned
    /\ dsPrev.op = "merge" /\ dsPrev.io = "write_short" /\ Load(dsPrev.payload).ok
    /\ dsStore.doc.puts # {}

\* C17 (as claimed): when persisting fails during set_field on a usable
\* store (the file cannot be opened, or cannot be written), set_field
\* returns, get_field returns the new value and the store stays usable.
C17_PersistFailureIsLogged ==
    (/\ dsLast.op = "set" /\ dsLast.io # "ok"
     /\ ~dsBefore.poisoned /\ dsBefore.doc.makes # {})
    => /\ ~dsStore.poisoned
       /\ get_field(dsStore, dsLast.field) = SomeValue(dsLast.val)

\* C18: a FullSync payload that does not parse as a document leaves the
\* in-memory document and the file as they were.
C18_ParseErrorNoMutation ==
    (dsLast.op = "merge" /\ ~Load(dsLast.payload).ok) => dsStore = dsBefore

\* C18 witness: a payload that does not parse arrived at a store that holds
\* a written field and no file yet.
C18_Witness ==
    /\ dsLast.op = "merge" /\ ~Load(dsLast.payload).ok
    /\ dsStore.doc.puts # {} /\ ~dsStore.poisoned
    /\ dsStore.file.bytes # Save(dsStore.doc)

\* C19 (as claimed): when automerge.dat is absent, cannot be read or does not
\* parse, the store starts from a freshly initialized document: an empty
\* `values` map, and the actor id derived from the identity.
C19_LoadNeverFails ==
    (/\ dsLast.op = "restart"
     /\ \/ ~dsBefore.file.exists
        \/ dsLast.io # "ok"
        \/ ~Load(dsBefore.file.bytes).ok)
    => /\ dsStore.doc = get_initial_state(StoreActor)
       /\ \A i \in 1..Len(FieldNames) :
            get_field(dsStore, FieldNames[i]) = [panic |-> FALSE, some |-> FALSE]

\* C20 (as claimed): in every reachable state the document root holds a map
\* named values, so get_field and set_field do not panic on its absence.
C20_ValuesExists == dsStore.doc.makes # {}

-----------------------------------------------------------------------------
(* Claims about the engine's broadcast buffer *)

\* what the claim says of two tags: t1 invalidates t2 iff both are NodeConfig
\* for the same node and t1's version is strictly greater
ClaimedInvalidates(t1, t2) ==
    /\ t1.kind = "NodeConfig" /\ t2.kind = "NodeConfig"
    /\ t1.node = t2.node
    /\ t1.version > t2.version

\* C11 (as claimed): Invalidation. An item the handler hands to the engine
\* invalidates an item the engine holds iff both are NodeConfig for the same
\* node and the new item's version is strictly greater.
C11_Invalidation ==
    \A i \in 1..Len(ivJudged) :
        ivJudged[i].inv <=> ClaimedInvalidates(ivNew.tag, ivJudged[i].tag)

-----------------------------------------------------------------------------
(* Claims about the Runtime Actor *)

\* C12: Per-step drain invariant. Whenever the actor has finished a command
\* and waits for the next one, to_send, to_schedule and notifications of the
\* accumulating runtime are empty.
C12_DrainInvariant ==
    rtPc = "recv" =>
        to_send = <<>> /\ to_schedule = <<>> /\ notifications = <<>>

\* C12 witness: the actor has finished a second command, a HandleTimer for
\* which the engine pushed packets, timers and notifications.
C12_Witness ==
    /\ rtPc = "recv" /\ rtHandled = 2
    /\ rtLast.cmd.kind = "HandleTimer"
    /\ rtLast.effects.send # <<>>
    /\ rtLast.effects.schedule # <<>>
    /\ rtLast.effects.notify # <<>>

\* C13: Per-command atomicity. The actor takes a command only when no
\* command is in flight and nothing is left to drain, also when commands
\* arrive while it is suspended in the drain.
C13_Atomicity ==
    [][rtHandled' = rtHandled + 1 =>
         /\ rtInflight.cmd.kind = "none"
         /\ to_send = <<>> /\ to_schedule = <<>> /\ notifications = <<>>]_vars

\* C13 witness: a command was sent to the actor while it was draining the
\* side-effects of another; the actor has finished both.
C13_Witness ==
    /\ rtOverlap /\ rtHandled = 2
    /\ rtPc = "recv" /\ rtInflight.cmd.kind = "none"

-----------------------------------------------------------------------------
(* Claims about craft_broadcast and receive_item on crafted bytes *)

\* C23 (as claimed): when the bytes given to receive_item cannot be
\* deserialized, it returns an error to the engine: no panic, and
\* seen_op_ids and the store are as before.
C23_MalformedIsError ==
    (frPc = "received" /\ ~DecRawBroadcast(AsRefBytes(frCrafted)).ok)
    => /\ ~frOut.panic
       /\ frOut.seen = {}
       /\ frOut.store = NewStore(1)

\* C28 (as claimed): craft_broadcast returns an item whose bytes are the
\* encoded tag followed by the encoded message, with no length prefix before
\* them, and whose tag is the given tag.
C28_NoLengthPrefix ==
    frPc # "start" =>
        /\ frCrafted.tag = frTag
        /\ AsRefBytes(frCrafted) = EncTag(frTag) \o EncGossipMessage(frMsg)

\* C29 (as claimed): when receive_item gets a not yet seen operation whose
\* message type is IncSync, the document and the file are left as they were,
\* the operation id is inserted into seen_op_ids and the item is returned.
C29_IncSyncIgnored ==
    (frPc = "received" /\ frMsg.message_type = "IncSync")
    => /\ ~frOut.panic
       /\ frOut.store = NewStore(1)
       /\ frOut.seen = {frTag.operation_id}
       /\ frOut.ret.some

-----------------------------------------------------------------------------
(* Claims about the actor and the errors of the engine *)

\* C30: when the engine returns an error for a command, the actor ignores
\* it: the command is drained like any other (packets left to send keep the
\* actor in the drain, and at the next recv the runtime is empty), and the
\* loop is left only by a panic, never by an error of the engine.
C30_EngineErrorIgnored ==
    /\ (rtInflight.cmd.kind # "none" /\ rtInflight.result = "err")
          => rtPc = "send" /\ to_send # <<>>
    /\ (rtPc = "recv" /\ rtLast.result = "err")
          => to_send = <<>> /\ to_schedule = <<>> /\ notifications = <<>>
    /\ rtPc = "dead" => rtInflight.result = "panic"

\* C30 witness: the engine returned an error for the first command, after
\* it had pushed packets; the actor has drained them and has taken a second
\* command, whose packets it is sending.
C30_Witness ==
    /\ rtLast.result = "err" /\ rtLast.effects.send # <<>>
    /\ rtHandled = 2 /\ rtPc = "send"
    /\ rtInflight.result = "ok"

\* C25 (as claimed): at most one call of the store per operation on the
\* node that originated it. When the operation a peer delivers was
\* originated here (the actor has handled SendBroadcast for its id),
\* message_handler is not called for it.
C25_OriginatorAtMostOnce ==
    (ivEcho.echo /\ ivEcho.originated) => ~ivEcho.called

\* C24 (as claimed): pull-on-join. For the item of a joining node,
\* receive_item returns a new item, with an id minted for it and the
\* snapshot of the store as its data, whether or not the item was seen
\* before. Tag has no variant for such an item and receive_item has one path
\* for all items, so this is stated of every item a peer delivers.
C24_PullOnJoin ==
    ivEcho.echo => ivEcho.fresh

-----------------------------------------------------------------------------
(* Claims about the requests *)

\* C21 (as claimed): reading a field that was never written is no error.
\* GET /state/{field} for an absent field answers 200 with the body
\* "{field}: N/A" and leaves the store as it was.
C21_AbsentFieldIsNA ==
    (htResp.kind = "GET" /\ htResp.absent)
    => /\ htResp.status = 200
       /\ htResp.body = "name: N/A"
       /\ htResp.untouched

\* C22 (as claimed): every PUT /state/{field} applies set_field and then
\* posts one SendBroadcast to the actor, a SyncOperation with a FullSync
\* snapshot taken after the write.
C22_PutWritesThenBroadcasts ==
    (htResp.kind = "PUT" /\ htResp.status = 200)
    => /\ htResp.stored
       /\ Len(htResp.sent) = 1

\* C26 (as claimed): the lock of the store is not held across the send to
\* the command channel. There is no state in which set_field waits for room
\* in the channel while it holds the lock and the actor waits for that lock.
C26_NoLockAcrossSend ==
    ~ /\ htWriter.pc = "sending" /\ htLock = "writer"
      /\ ~htClosed /\ Len(htChan) >= ChannelCap
      /\ htActor.pc = "taken" /\ NeedsLock(htActor.cmd)

\* C27 (as claimed): a PUT /state/{field} is answered with an error status
\* iff the command channel to the actor is closed.
C27_ErrorIffChannelClosed ==
    htResp.kind = "PUT" => (htResp.status = 500 <=> htResp.closed)

-----------------------------------------------------------------------------
(* Claims about the drain of the actor's step *)

\* C31 (as claimed): backpressure. When the channel to the socket writer is
\* full while the actor drains to_send, the actor drops the packet and goes
\* on: it is never suspended in the drain, a packet in hand, at a full
\* channel.
C31_DropOnFullChannel ==
    ~(rtPc = "send" /\ to_send # <<>> /\ Len(rtOut) >= ChannelCap)

\* the HandleTimer commands and timer events that are on their way to the
\* actor: sleeping timer tasks, events in the input channel, commands in the
\* command channel
TimersOnTheWay ==
    \/ \E e \in TimerEvents : rtTimers[e] > 0
    \/ \E i \in 1..Len(rtInput) : rtInput[i].kind = "Event"
    \/ \E i \in 1..Len(rtQueue) : rtQueue[i].kind = "HandleTimer"

\* C32 (as claimed): every timer the engine schedules is delivered to the
\* actor as one HandleTimer command. So there is no state in which a timer
\* is on its way and the actor is gone, which would never take it.
C32_TimerIsDelivered ==
    rtPc = "dead" => ~TimersOnTheWay

\* a step of the actor ends: the last packet is handed over, or the command
\* pushed no packet
StepEnds ==
    rtPc' = "recv" /\ (rtPc = "send" \/ rtHandled' = rtHandled + 1)

\* the registry after add_member for each MemberUp and remove_member for
\* each MemberDown of notifs, taken from the last to the first
RECURSIVE Popped(_, _)
Popped(notifs, m) ==
    IF notifs = <<>> THEN m
    ELSE LET n == notifs[Len(notifs)]
             after == IF n.kind = "MemberUp" THEN add_member(m, n.id).members
                      ELSE IF n.kind = "MemberDown" THEN remove_member(m, n.id).members
                      ELSE m
         IN  Popped(SubSeq(notifs, 1, Len(notifs) - 1), after)

\* the same, taken from the first to the last: the order the engine pushed
\* them in
RECURSIVE Pushed(_, _)
Pushed(notifs, m) ==
    IF notifs = <<>> THEN m
    ELSE LET n == Head(notifs)
             after == IF n.kind = "MemberUp" THEN add_member(m, n.id).members
                      ELSE IF n.kind = "MemberDown" THEN remove_member(m, n.id).members
                      ELSE m
         IN  Pushed(Tail(notifs), after)

\* C33: at the end of a step the registry is the one before with add_member
\* applied for each MemberUp and remove_member for each MemberDown the
\* engine pushed for the command, Idle changing nothing; and no other step
\* of the actor or of the tasks around it changes the registry.
C33_RegistryFollowsNotifications ==
    [][IF StepEnds THEN rtMembers' = Popped(rtLast'.effects.notify, rtMembers)
       ELSE rtMembers' = rtMembers]_vars

\* C33 witness: the second step has ended; the engine had pushed MemberDown,
\* Idle and MemberUp for an address a MemberUp of the first step had added.
C33_Witness ==
    /\ rtPc = "recv" /\ rtHandled = 2
    /\ Len(rtLast.effects.notify) = 3
    /\ Counter(rtMembers, 2) = 1

\* C34 (as claimed): the side-effects of one step do not depend on the
\* order: the registry at the end of a step is the one that applying the
\* notifications in the order the engine pushed them gives.
C34_OrderIndependent ==
    [][StepEnds => rtMembers' = Pushed(rtLast'.effects.notify, rtMembers)]_vars

\* C38 (as claimed): active_list_has_changed is true at the end of a step
\* iff the set of addresses in the registry differs from the set before the
\* step.
C38_ChangeFlag ==
    [][StepEnds => (rtLast'.changed <=> DOMAIN rtMembers' # DOMAIN rtMembers)]_vars

\* C35 (as claimed): startup. Before the actor handles its first command
\* the address of the local identity is in the registry, and at most one
\* Announce has been enqueued.
C35_Startup ==
    (rtHandled = 0 /\ rtPc = "recv" /\ rtArrived = 0) =>
        /\ Counter(rtMembers, 1) > 0
        /\ Cardinality({i \in 1..Len(rtQueue) : rtQueue[i].kind = "Announce"}) <= 1

\* C36 (as claimed): when the process stops during a persistence and starts
\* again, the document it starts with holds at least the document that was
\* on disk before that persistence: only the latest write is lost.
C36_LossIsLatestWrite ==
    (dsLast.op = "crash" /\ dsBefore.file.exists /\ Load(dsBefore.file.bytes).ok) =>
        /\ Load(dsBefore.file.bytes).doc.makes \subseteq dsStore.doc.makes
        /\ Load(dsBefore.file.bytes).doc.puts \subseteq dsStore.doc.puts

\* C37 (as claimed): a merge never hides a local write. When get_field(name)
\* returns a value and the node merges a snapshot in which no node wrote to
\* name, get_field(name) returns the same value afterwards.
C37_MergeKeepsLocalWrite ==
    \A j \in 2..Len(mgLog) :
        (/\ Load(mgLog[j]).ok
         /\ \A p \in Load(mgLog[j]).doc.puts : p.key # FieldCode("name")
         /\ get_field(mgAfter[j - 1], "name").some
         /\ ~mgAfter[j].poisoned)
        => get_field(mgAfter[j], "name") = get_field(mgAfter[j - 1], "name")

\* C40: receive_item records the operation id and returns the item whatever
\* the store makes of the payload. The delivery of an operation not seen
\* before whose payload the store cannot parse leaves the store as it was,
\* puts the id into seen_op_ids and returns Some(item); and a delivery of an
\* operation whose id is in seen_op_ids returns None without calling the
\* store.
C40_RecordedBeforeStore ==
    /\ (ivEcho.echo /\ ~ivEcho.known /\ ~ivEcho.parsed) =>
           ivStore = ivEcho.before /\ ivEcho.id \in ivSeen /\ ivEcho.some
    /\ (ivEcho.echo /\ ivEcho.known) => ~ivEcho.some /\ ~ivEcho.called

\* C40 witness: a peer's operation with a payload that is no snapshot has
\* been delivered for the first time and is held for re-broadcast.
C40_Witness ==
    /\ ivEcho.echo /\ ~ivEcho.known /\ ~ivEcho.parsed
    /\ ivEcho.some /\ ivStore = ivEcho.before
    /\ ivNew.item.data = Zeros(3) /\ ivNew.item.id = ivEcho.id /\ ivEcho.id \in ivSeen

\* C39 (as claimed): the u8 counter of an address never overflows or wraps.
\* After any number of add_member calls for identities of one address no
\* call has panicked, the counter is the number of adds minus the number of
\* effective removes, and add_member has returned true only for the first
\* add of an address that was not in the registry.
C39_CounterNeverWraps ==
    /\ ~mpanicked
    /\ \A a \in Addrs : Counter(members, a) = adds[a] - effRemoves[a]
    /\ (mlast.op = "add" /\ mlast.ret) =>
           adds[mlast.id.addr] - effRemoves[mlast.id.addr] = 1

====
